---- MODULE Spec2Model ----
(***************************************************************************)
(* A model of the tuliprox streaming core:                                 *)
(*   - the ActiveUserManager (src/src/api/model/active_user_manager.rs):   *)
(*     per-user connection counting, the grace-period state machine and    *)
(*     the user sessions, driven by concurrent stream requests;            *)
(*   - flatten_tvguide (src/backend/src/processing/parser/xmltv.rs), the   *)
(*     parallel priority merge of EPG guides;                              *)
(*   - stream_response / force_provider_stream_response                    *)
(*     (src/backend/src/api/api_utils.rs) and the life of the provider     *)
(*     connection guard;                                                   *)
(*   - get_stream_alternative_url, get_redirect_alternative_url and the    *)
(*     url of resolve_streaming_strategy (api_utils.rs), as functions on   *)
(*     strings;                                                            *)
(*   - process_epg_file (xmltv.rs): the filter of the tags of an epg file  *)
(*     with normalized and fuzzy channel matching;                         *)
(*   - TVGuide::filter (xmltv.rs) over the epg sources of a guide;         *)
(*   - functions of one call: load_and_set_file (base.rs),                 *)
(*     resource_response, get_user_target, separate_number_and_remainder   *)
(*     and prepare_body_stream (api_utils.rs), normalize_channel_name      *)
(*     (xmltv.rs), the grace period of StreamDetails (api_utils.rs), the   *)
(*     map block and the match block of the mapper script                  *)
(*     (src/src/foundation/mapper.rs).                                     *)
(* Each part has its own specification (SpecManager, SpecUser, SpecGc,     *)
(* SpecGrace and SpecSessions for the manager, SpecEpg, SpecStream and     *)
(* SpecShare for the stream responses, SpecUrl, SpecFilter, SpecSources,   *)
(* SpecCalls); the variables of the other parts stay at their initial      *)
(* value.                                                                  *)
(***************************************************************************)
EXTENDS Integers, Sequences, FiniteSets, TLC

VARIABLES
    \* ---- ActiveUserManager ----
    user,                 \* HashMap<String, UserConnectionData>; NoUser = no entry
    gc_ts,                \* ActiveUserManager.gc_ts
    grace_period_millis,  \* ActiveUserManager.grace_period_millis (configuration)
    now,                  \* the wall clock, in seconds
    ticks,                \* how often the clock advanced (bounds the run)
    req,                  \* the stream requests: position, user, permission received
    created,              \* sessions created so far (gives each session an identity)
    live,                 \* per user: UserConnectionGuards alive
    pending,              \* per user: guards dropped whose release task has not run
    \* ---- flatten_tvguide ----
    sorted_guides,        \* the guides, sorted by priority
    channel_mapping,      \* RwLock<HashMap<String, i16>>: channel id -> priority
    gpos,                 \* per guide: the position of its closure
    children,             \* per guide: the closure's local vec
    epg_children,         \* Mutex<Vec<XmlTag>>: the children of the merged Epg
    \* ---- stream_response ----
    sreq,                 \* the stream responses being built
    provider,             \* the provider's connection count and grace mark
    shared,               \* the shared stream registered for the url
    \* ---- url rewrite ----
    rw,                   \* one rewrite: the url, the two providers, the results
    \* ---- process_epg_file ----
    id_cache,             \* the EpgIdCache
    epg_file,             \* the channel and programme tags of the file, in order
    fpos,                 \* the next tag of the file
    file_children,        \* the tags kept so far
    \* ---- TVGuide::filter ----
    filter_args,          \* the epg sources and the EpgIdCache filter is called with
    spos,                 \* the source filter_map stands at
    sphase,               \* what is done next with it
    filter_result,        \* the Epgs collected, and in the end the value returned
    \* ---- functions of one call ----
    call,                 \* the function called and its arguments
    ret                   \* the value returned

managerVars == <<user, gc_ts, grace_period_millis, now, ticks, req, created, live, pending>>
epgVars == <<sorted_guides, channel_mapping, gpos, children, epg_children>>
streamVars == <<sreq, provider, shared>>
urlVars == <<rw>>
filterVars == <<id_cache, epg_file, fpos, file_children>>
sourceVars == <<filter_args, spos, sphase, filter_result>>
callVars == <<call, ret>>
vars == <<managerVars, epgVars, streamVars, urlVars, filterVars, sourceVars, callVars>>

----------------------------------------------------------------------------
(* Bounds of the model *)

\* concurrent stream requests
NumRequests == 3
\* clock advances in one run
MaxTicks == 2
\* sessions created in one run
MaxSessions == 2
\* user connection guards outstanding at once (manager-level specification)
MaxGuards == 2

(* Program constants and configuration *)

USER_CON_TTL == 10800

\* reverse_proxy.stream.grace_period_timeout_secs
grace_period_timeout_secs == 60

\* reverse_proxy.stream.grace_period_millis when grace is enabled
GraceMillis == 1000

Users == {"u1", "u2"}

\* ProxyUserCredentials.max_connections of each user
UserMax(username) == IF username = "u1" THEN 1 ELSE 2

Requests == 1..NumRequests

\* session tokens: the code draws a random u32 and only ever compares tokens
\* for equality, so two of them show every case (equal, different, unknown)
Tokens == {"t1", "t2"}

Permissions == {"Allowed", "GracePeriod", "Exhausted"}
\* the permissions sessions are created with: stream_response has returned
\* before create_user_session when the permission is Exhausted
SessionPermissions == {"Allowed", "GracePeriod"}

NoUser == [absent |-> TRUE]

\* the user the manager-level specification calls the manager for
ManagerUsers == {"u1"}

\* the amounts by which the clock advances: within the grace timeout, and past
\* both the grace timeout and the session TTL
TickSteps == {1, USER_CON_TTL}

----------------------------------------------------------------------------
(* ActiveUserManager *)

\* UserConnectionData::new
NewUserConnectionData(connections, max_connections) ==
    [max_connections |-> max_connections,
     connections     |-> connections,
     granted_grace   |-> FALSE,
     grace_ts        |-> 0,
     sessions        |-> <<>>]

ResetGrace(cd) == [cd EXCEPT !.granted_grace = FALSE, !.grace_ts = 0]

\* check_connection_permission: the permission and the record as it leaves it
check_connection_permission(cd) ==
    IF cd.connections < cd.max_connections
    THEN [permission |-> "Allowed", data |-> ResetGrace(cd)]
    ELSE IF /\ cd.granted_grace
            /\ cd.connections > cd.max_connections
            /\ now - cd.grace_ts <= grace_period_timeout_secs
    THEN [permission |-> "Exhausted", data |-> cd]
    ELSE LET cd2 == IF cd.granted_grace THEN ResetGrace(cd) ELSE cd
         IN  IF grace_period_millis > 0 /\ cd2.connections = cd2.max_connections
             THEN [permission |-> "GracePeriod",
                   data |-> [cd2 EXCEPT !.granted_grace = TRUE, !.grace_ts = now]]
             ELSE [permission |-> "Exhausted", data |-> cd2]

\* connection_permission that evaluates the record whatever max_connections is
connection_permission_Unguarded(username, max_connections) ==
    IF user[username] # NoUser
    THEN LET res == check_connection_permission(user[username])
         IN  [permission |-> res.permission,
              user |-> [user EXCEPT ![username] = res.data]]
    ELSE [permission |-> "Allowed", user |-> user]

\* connection_permission that makes the record of a user it does not know
connection_permission_Creates(username, max_connections) ==
    IF max_connections > 0 /\ user[username] # NoUser
    THEN LET res == check_connection_permission(user[username])
         IN  [permission |-> res.permission,
              user |-> [user EXCEPT ![username] = res.data]]
    ELSE [permission |-> "Allowed",
          user |-> [user EXCEPT ![username] =
                       IF @ = NoUser THEN NewUserConnectionData(0, max_connections)
                       ELSE @]]

\* connection_permission(username, max_connections): permission and new user map
connection_permission(username, max_connections) ==
    IF max_connections > 0 /\ user[username] # NoUser
    THEN LET res == check_connection_permission(user[username])
         IN  [permission |-> res.permission,
              user |-> [user EXCEPT ![username] = res.data]]
    ELSE [permission |-> "Allowed", user |-> user]

\* add_connection(username, max_connections): the new user map
add_connection(username, max_connections) ==
    IF user[username] # NoUser
    THEN [user EXCEPT ![username] =
             [@ EXCEPT !.connections = @ + 1, !.max_connections = max_connections]]
    ELSE [user EXCEPT ![username] = NewUserConnectionData(1, max_connections)]

\* remove_connection that forgets the decrement
remove_connection_NoDecrement(username) ==
    IF user[username] # NoUser
    THEN LET cd == user[username]
         IN  [user EXCEPT ![username] =
                 IF cd.connections = 0 \/ cd.connections < cd.max_connections
                 THEN ResetGrace(cd) ELSE cd]
    ELSE user

\* remove_connection(username): the new user map
remove_connection(username) ==
    IF user[username] # NoUser
    THEN LET cd  == user[username]
             cd1 == IF cd.connections > 0
                    THEN [cd EXCEPT !.connections = @ - 1] ELSE cd
             cd2 == IF cd1.connections = 0 \/ cd1.connections < cd1.max_connections
                    THEN ResetGrace(cd1) ELSE cd1
         IN  [user EXCEPT ![username] = cd2]
    ELSE user

\* find_user_session that takes the last session with the token
find_user_session_Last(token, sessions) ==
    IF \E i \in 1..Len(sessions) : sessions[i].token = token
    THEN CHOOSE i \in 1..Len(sessions) :
            /\ sessions[i].token = token
            /\ \A j \in (i + 1)..Len(sessions) : sessions[j].token # token
    ELSE 0

\* find_user_session: the index of the first session with the token, 0 if none
find_user_session(token, sessions) ==
    IF \E i \in 1..Len(sessions) : sessions[i].token = token
    THEN CHOOSE i \in 1..Len(sessions) :
            /\ sessions[i].token = token
            /\ \A j \in 1..(i - 1) : sessions[j].token # token
    ELSE 0

\* new_user_session: token is the random u32 drawn, sid the session's identity.
\* virtual_id, provider and stream_url are stored and never read by the manager.
\* orig remembers the permission the session was created with.
new_user_session(token, connection_permission_, sid) ==
    [token |-> token, ts |-> now, permission |-> connection_permission_,
     sid |-> sid, orig |-> connection_permission_]

\* a gc() that never sweeps
GcDue_Never ==
    FALSE

\* whether gc() finds the sessions due for a sweep
GcDue ==
    now - gc_ts > USER_CON_TTL

\* gc(): the user map after the sweep, when one is due
gc_users ==
    IF GcDue
    THEN [u \in Users |->
            IF user[u] = NoUser THEN NoUser
            ELSE [user[u] EXCEPT !.sessions =
                     SelectSeq(@, LAMBDA s : now - s.ts < USER_CON_TTL)]]
    ELSE user

\* update_user_session(username, token): the session returned (NoSession = None)
\* and the new user map
NoSession == [none |-> TRUE]

\* update_user_session that re-evaluates whatever the stored permission is
update_user_session_Always(username, token) ==
    IF user[username] = NoUser
    THEN [session |-> NoSession, user |-> user]
    ELSE LET cd    == user[username]
             index == find_user_session(token, cd.sessions)
         IN  IF index = 0
             THEN [session |-> NoSession, user |-> user]
             ELSE IF cd.max_connections = 0
             THEN [session |-> cd.sessions[index], user |-> user]
             ELSE LET res == check_connection_permission(cd)
                      cd2 == [res.data EXCEPT
                                 !.sessions[index].permission = res.permission]
                  IN  [session |-> cd2.sessions[index],
                       user |-> [user EXCEPT ![username] = cd2]]

\* update_user_session that returns the session as it was before the rewrite
update_user_session_StaleSnapshot(username, token) ==
    IF user[username] = NoUser
    THEN [session |-> NoSession, user |-> user]
    ELSE LET cd    == user[username]
             index == find_user_session(token, cd.sessions)
         IN  IF index = 0
             THEN [session |-> NoSession, user |-> user]
             ELSE IF cd.max_connections = 0
             THEN [session |-> cd.sessions[index], user |-> user]
             ELSE IF cd.sessions[index].permission = "GracePeriod"
             THEN LET res == check_connection_permission(cd)
                      cd2 == [res.data EXCEPT
                                 !.sessions[index].permission = res.permission]
                  IN  [session |-> cd.sessions[index],
                       user |-> [user EXCEPT ![username] = cd2]]
             ELSE [session |-> cd.sessions[index], user |-> user]

\* update_user_session(username, token): the session returned and the new
\* user map
update_user_session(username, token) ==
    IF user[username] = NoUser
    THEN [session |-> NoSession, user |-> user]
    ELSE LET cd    == user[username]
             index == find_user_session(token, cd.sessions)
         IN  IF index = 0
             THEN [session |-> NoSession, user |-> user]
             ELSE IF cd.max_connections = 0
             THEN [session |-> cd.sessions[index], user |-> user]
             ELSE IF cd.sessions[index].permission = "GracePeriod"
             THEN LET res == check_connection_permission(cd)
                      cd2 == [res.data EXCEPT
                                 !.sessions[index].permission = res.permission]
                  IN  [session |-> cd2.sessions[index],
                       user |-> [user EXCEPT ![username] = cd2]]
             ELSE [session |-> cd.sessions[index], user |-> user]

\* create_user_session(user, virtual_id, provider, stream_url, connection_permission)
\* with user = (username, max_connections); token is the random token drawn
CreateUserSession(username, max_connections, connection_permission_, token) ==
    /\ created < MaxSessions
    /\ LET swept   == gc_users
           session == new_user_session(token, connection_permission_, created + 1)
           cd      == IF swept[username] # NoUser THEN swept[username]
                      ELSE NewUserConnectionData(0, max_connections)
       IN  user' = [swept EXCEPT ![username] =
                       [cd EXCEPT !.sessions = Append(@, session)]]
    /\ gc_ts' = IF GcDue THEN now ELSE gc_ts
    /\ created' = created + 1
    /\ UNCHANGED <<epgVars, streamVars, urlVars, filterVars, sourceVars, callVars>>
    /\ UNCHANGED <<grace_period_millis, now, ticks, req, live, pending>>

\* get_user_session(username, token)
GetUserSession(username, token) ==
    /\ user' = update_user_session(username, token).user
    /\ UNCHANGED <<epgVars, streamVars, urlVars, filterVars, sourceVars, callVars>>
    /\ UNCHANGED <<gc_ts, grace_period_millis, now, ticks, req, created, live, pending>>

\* connection_permission(username, max_connections), called on the manager
ConnectionPermission(username, max_connections) ==
    /\ user' = connection_permission(username, max_connections).user
    /\ UNCHANGED <<epgVars, streamVars, urlVars, filterVars, sourceVars, callVars>>
    /\ UNCHANGED <<gc_ts, grace_period_millis, now, ticks, req, created, live, pending>>

\* add_connection(username, max_connections): the caller holds the guard returned
AddConnection(username, max_connections) ==
    /\ live[username] + pending[username] < MaxGuards
    /\ user' = add_connection(username, max_connections)
    /\ live' = [live EXCEPT ![username] = @ + 1]
    /\ UNCHANGED <<epgVars, streamVars, urlVars, filterVars, sourceVars, callVars>>
    /\ UNCHANGED <<gc_ts, grace_period_millis, now, ticks, req, created, pending>>

\* UserConnectionGuard::drop: the release task is spawned, nothing is released yet
GuardDrop(username) ==
    /\ live[username] > 0
    /\ live' = [live EXCEPT ![username] = @ - 1]
    /\ pending' = [pending EXCEPT ![username] = @ + 1]
    /\ UNCHANGED <<epgVars, streamVars, urlVars, filterVars, sourceVars, callVars>>
    /\ UNCHANGED <<user, gc_ts, grace_period_millis, now, ticks, req, created>>

\* the spawned release task runs remove_connection
RemoveConnection(username) ==
    /\ pending[username] > 0
    /\ user' = remove_connection(username)
    /\ pending' = [pending EXCEPT ![username] = @ - 1]
    /\ UNCHANGED <<epgVars, streamVars, urlVars, filterVars, sourceVars, callVars>>
    /\ UNCHANGED <<gc_ts, grace_period_millis, now, ticks, req, created, live>>

\* the clock advances
Tick ==
    /\ ticks < MaxTicks
    /\ \E d \in TickSteps : now' = now + d
    /\ ticks' = ticks + 1
    /\ UNCHANGED <<epgVars, streamVars, urlVars, filterVars, sourceVars, callVars>>
    /\ UNCHANGED <<user, gc_ts, grace_period_millis, req, created, live, pending>>

IdleRequest == [pc |-> "idle", username |-> "u1", permission |-> "Allowed", at |-> 0]

\* ActiveUserManager::new: no user, gc_ts = the time of construction; the
\* grace period comes from the configuration
ManagerStart ==
    /\ user = [u \in Users |-> NoUser]
    /\ now = 1
    /\ gc_ts = now
    /\ grace_period_millis \in {0, GraceMillis}
    /\ ticks = 0
    /\ req = [r \in Requests |-> IdleRequest]
    /\ created = 0
    /\ live = [u \in Users |-> 0]
    /\ pending = [u \in Users |-> 0]

\* no guide is being merged
EpgIdle ==
    /\ sorted_guides = <<>>
    /\ channel_mapping = <<>>
    /\ gpos = <<>>
    /\ children = <<>>
    /\ epg_children = <<>>

\* no stream response is being built
StreamIdle ==
    /\ sreq = <<>>
    /\ provider = <<>>
    /\ shared = <<>>

\* no url is being rewritten
UrlIdle == rw = <<>>

\* no epg file is being read
FilterIdle ==
    /\ id_cache = <<>>
    /\ epg_file = <<>>
    /\ fpos = 1
    /\ file_children = <<>>

\* filter is not running
SourceIdle ==
    /\ filter_args = <<>>
    /\ spos = 1
    /\ sphase = "idle"
    /\ filter_result = <<>>

\* no function is called
CallIdle ==
    /\ call = <<>>
    /\ ret = <<>>

OthersIdle == SourceIdle /\ CallIdle

InitManager ==
    ManagerStart /\ EpgIdle /\ StreamIdle /\ UrlIdle /\ FilterIdle /\ OthersIdle

NextManager ==
    \/ \E username \in ManagerUsers :
          \E max_connections \in {0, UserMax(username)} :
             ConnectionPermission(username, max_connections)
    \/ \E username \in ManagerUsers : AddConnection(username, UserMax(username))
    \/ \E username \in ManagerUsers : GuardDrop(username)
    \/ \E username \in ManagerUsers : RemoveConnection(username)
    \/ \E username \in ManagerUsers, p \in SessionPermissions, token \in Tokens :
          \E max_connections \in {0, UserMax(username)} :
             CreateUserSession(username, max_connections, p, token)
    \/ \E username \in ManagerUsers, token \in Tokens :
          GetUserSession(username, token)
    \/ Tick

\* the manager under any sequence of its operations on one user's record
SpecManager == InitManager /\ [][NextManager]_vars

----------------------------------------------------------------------------
(* The lazy GC of the manager: sessions are created for two users while the  *)
(* clock advances.                                                            *)

\* active_users(): the number of user records
active_users == Cardinality({u \in Users : user[u] # NoUser})

NextGc ==
    \/ \E username \in Users, p \in SessionPermissions, token \in Tokens :
          \E max_connections \in {0, UserMax(username)} :
             CreateUserSession(username, max_connections, p, token)
    \/ Tick

\* create_user_session and its gc() for two users
SpecGc == InitManager /\ [][NextGc]_vars

NextSessions ==
    \/ \E username \in Users, p \in SessionPermissions, token \in Tokens :
          \E max_connections \in {0, UserMax(username)} :
             CreateUserSession(username, max_connections, p, token)
    \/ \E username \in Users, token \in Tokens : GetUserSession(username, token)
    \/ Tick

\* the sessions of two users: create_user_session and get_user_session
SpecSessions == InitManager /\ [][NextSessions]_vars

\* the max_connections a caller passes for a user: the user's own, or a higher
\* one after the user's configuration changed
ChangedMaxes(username) == {UserMax(username), UserMax(username) + 2}

NextGrace ==
    \/ \E username \in ManagerUsers :
          \E max_connections \in ChangedMaxes(username) :
             ConnectionPermission(username, max_connections)
    \/ \E username \in ManagerUsers :
          \E max_connections \in ChangedMaxes(username) :
             AddConnection(username, max_connections)
    \/ \E username \in ManagerUsers : GuardDrop(username)
    \/ \E username \in ManagerUsers : RemoveConnection(username)
    \/ Tick

\* permission checks, connections and releases of a user whose max_connections
\* changes between the calls
SpecGrace == InitManager /\ [][NextGrace]_vars

----------------------------------------------------------------------------
(* Stream requests against the manager. A request asks connection_permission *)
(* and, unless the answer is Exhausted, calls add_connection and holds the    *)
(* guard while its body streams; dropping the guard spawns the release task,  *)
(* which runs remove_connection later. Requests are numbered in the order in  *)
(* which they arrive.                                                         *)

\* the request arrives and asks for the user's permission
RequestPermission(r, username) ==
    /\ req[r].pc = "idle"
    /\ r > 1 => req[r - 1].pc # "idle"
    /\ LET res == connection_permission(username, UserMax(username))
       IN  /\ user' = res.user
           /\ req' = [req EXCEPT ![r] =
                  [pc |-> IF res.permission = "Exhausted" THEN "done" ELSE "permitted",
                   username |-> username,
                   permission |-> res.permission,
                   at |-> now]]
    /\ UNCHANGED <<epgVars, streamVars, urlVars, filterVars, sourceVars, callVars>>
    /\ UNCHANGED <<gc_ts, grace_period_millis, now, ticks, created, live, pending>>

\* the permitted request adds its connection and holds the guard
RequestAddConnection(r) ==
    /\ req[r].pc = "permitted"
    /\ user' = add_connection(req[r].username, UserMax(req[r].username))
    /\ req' = [req EXCEPT ![r].pc = "streaming"]
    /\ live' = [live EXCEPT ![req[r].username] = @ + 1]
    /\ UNCHANGED <<epgVars, streamVars, urlVars, filterVars, sourceVars, callVars>>
    /\ UNCHANGED <<gc_ts, grace_period_millis, now, ticks, created, pending>>

\* the body ends or the client leaves: the guard is dropped
RequestGuardDrop(r) ==
    /\ req[r].pc = "streaming"
    /\ req' = [req EXCEPT ![r].pc = "dropped"]
    /\ live' = [live EXCEPT ![req[r].username] = @ - 1]
    /\ pending' = [pending EXCEPT ![req[r].username] = @ + 1]
    /\ UNCHANGED <<epgVars, streamVars, urlVars, filterVars, sourceVars, callVars>>
    /\ UNCHANGED <<user, gc_ts, grace_period_millis, now, ticks, created>>

\* the release task the drop spawned runs remove_connection
RequestReleaseTask(r) ==
    /\ req[r].pc = "dropped"
    /\ user' = remove_connection(req[r].username)
    /\ req' = [req EXCEPT ![r].pc = "done"]
    /\ pending' = [pending EXCEPT ![req[r].username] = @ - 1]
    /\ UNCHANGED <<epgVars, streamVars, urlVars, filterVars, sourceVars, callVars>>
    /\ UNCHANGED <<gc_ts, grace_period_millis, now, ticks, created, live>>

NextUser ==
    \/ \E r \in Requests, username \in Users : RequestPermission(r, username)
    \/ \E r \in Requests : RequestAddConnection(r)
    \/ \E r \in Requests : RequestGuardDrop(r)
    \/ \E r \in Requests : RequestReleaseTask(r)
    \/ Tick

\* concurrent stream requests of two users
SpecUser == InitManager /\ [][NextUser]_vars

----------------------------------------------------------------------------
(* flatten_tvguide: the guides are sorted by priority and processed in       *)
(* parallel (par_iter), one closure per guide. A closure runs its channel     *)
(* pass, its programme pass and then appends its local vec to epg_children.   *)
(* Every access to channel_mapping takes the lock for that access only, so    *)
(* the closures interleave between any two accesses.                          *)

\* guides merged in one call
NumGuides == 2
\* guide priorities are 0..MaxPriority (a lower number is a higher priority)
MaxPriority == 1

Guides == 1..NumGuides
Priorities == 0..MaxPriority
ChanIds == {"c1", "c2"}
EPG_TAG_CHANNEL == "channel"
EPG_TAG_PROGRAMME == "programme"

\* an XmlTag: its name and its id (channel) or channel (programme) attribute
XmlTag(name, chan_id) == [name |-> name, id |-> chan_id]

\* the children lists the guides are drawn from
GuideChildren ==
    { <<XmlTag(EPG_TAG_CHANNEL, "c1"), XmlTag(EPG_TAG_PROGRAMME, "c1")>>,
      <<XmlTag(EPG_TAG_CHANNEL, "c1"), XmlTag(EPG_TAG_CHANNEL, "c2"),
        XmlTag(EPG_TAG_PROGRAMME, "c2")>>,
      <<XmlTag(EPG_TAG_PROGRAMME, "c1"), XmlTag(EPG_TAG_CHANNEL, "c2")>>,
      <<XmlTag(EPG_TAG_CHANNEL, "c1"), XmlTag(EPG_TAG_CHANNEL, "c1"),
        XmlTag(EPG_TAG_PROGRAMME, "c1")>> }

\* an Epg: src names the input guide it is (the identity of its tags)
Epgs == [priority : Priorities, children : GuideChildren, src : Guides]

\* sorted_guides.sort_by(|a, b| a.priority.cmp(&b.priority)): a stable sort
RECURSIVE InsertByPriority(_, _)
InsertByPriority(guide, sorted) ==
    IF sorted = <<>> THEN <<guide>>
    ELSE IF Head(sorted).priority <= guide.priority
    THEN <<Head(sorted)>> \o InsertByPriority(guide, Tail(sorted))
    ELSE <<guide>> \o sorted

RECURSIVE SortByPriority(_)
SortByPriority(tv_guides) ==
    IF tv_guides = <<>> THEN <<>>
    ELSE InsertByPriority(tv_guides[Len(tv_guides)],
                          SortByPriority(SubSeq(tv_guides, 1, Len(tv_guides) - 1)))

\* the first child at or after index from whose name is name; past the end if none
NextChild(guide, name, from) ==
    LET rest == {k \in from..Len(guide.children) : guide.children[k].name = name}
    IN  IF rest = {} THEN Len(guide.children) + 1
        ELSE CHOOSE k \in rest : \A j \in rest : k <= j

\* where the closure of guide stands when its iteration continues at index from
\* of the pass over the channel tags or of the pass over the programme tags
Position(guide, pass, from) ==
    LET chan == NextChild(guide, EPG_TAG_CHANNEL, from)
        prog == NextChild(guide, EPG_TAG_PROGRAMME,
                          IF pass = "programme" THEN from ELSE 1)
    IN  IF pass = "channel" /\ chan <= Len(guide.children)
        THEN [pass |-> "channel", idx |-> chan]
        ELSE IF prog <= Len(guide.children)
        THEN [pass |-> "programme", idx |-> prog]
        ELSE [pass |-> "extend", idx |-> 1]

contains_key(chan_id) == chan_id \in DOMAIN channel_mapping

\* e.insert(priority)
MapInsert(chan_id, priority) ==
    [c \in DOMAIN channel_mapping \cup {chan_id} |->
        IF c = chan_id THEN priority ELSE channel_mapping[c]]

\* c.clone() pushed: the tag remembers the guide and the position it comes from
Cloned(g, k) ==
    [name |-> sorted_guides[g].children[k].name,
     id |-> sorted_guides[g].children[k].id,
     src |-> sorted_guides[g].src,
     priority |-> sorted_guides[g].priority,
     k |-> k]

\* should_add, computed under the read lock
should_add(g, chan_id) ==
    \/ ~contains_key(chan_id)
    \/ sorted_guides[g].priority < channel_mapping[chan_id]

\* the match on channel_map.entry(chan_id) under the write lock: is the
\* channel tag taken?
entry_taken(g, chan_id) ==
    \/ ~contains_key(chan_id)
    \/ sorted_guides[g].priority < channel_mapping[chan_id]

\* the programme pass omitting the look-up of the stored priority
programme_taken_Unchecked(g, chan_id) ==
    TRUE

\* the programme pass: is the programme tag taken?
programme_taken(g, chan_id) ==
    /\ contains_key(chan_id)
    /\ channel_mapping[chan_id] = sorted_guides[g].priority

\* channel pass, a channel tag: should_add is computed under the read lock
ChannelCheck(g) ==
    /\ gpos[g].pass = "channel"
    /\ LET guide == sorted_guides[g]
           c     == guide.children[gpos[g].idx]
       IN  gpos' = [gpos EXCEPT ![g] =
                      IF should_add(g, c.id)
                      THEN [pass |-> "channel_write", idx |-> gpos[g].idx]
                      ELSE Position(guide, "channel", gpos[g].idx + 1)]
    /\ UNCHANGED <<sorted_guides, channel_mapping, children, epg_children>>
    /\ UNCHANGED <<managerVars, streamVars, urlVars, filterVars, sourceVars, callVars>>

\* channel pass, should_add was true: the entry is matched under the write lock
ChannelWrite(g) ==
    /\ gpos[g].pass = "channel_write"
    /\ LET guide == sorted_guides[g]
           c     == guide.children[gpos[g].idx]
       IN  /\ IF entry_taken(g, c.id)
              THEN /\ channel_mapping' = MapInsert(c.id, guide.priority)
                   /\ children' = [children EXCEPT
                                      ![g] = Append(@, Cloned(g, gpos[g].idx))]
              ELSE UNCHANGED <<channel_mapping, children>>
           /\ gpos' = [gpos EXCEPT
                         ![g] = Position(guide, "channel", gpos[g].idx + 1)]
    /\ UNCHANGED <<sorted_guides, epg_children>>
    /\ UNCHANGED <<managerVars, streamVars, urlVars, filterVars, sourceVars, callVars>>

\* programme pass, a programme tag: the stored priority is read under the
\* read lock
ProgrammeCheck(g) ==
    /\ gpos[g].pass = "programme"
    /\ LET guide == sorted_guides[g]
           c     == guide.children[gpos[g].idx]
       IN  /\ children' = IF programme_taken(g, c.id)
                          THEN [children EXCEPT
                                   ![g] = Append(@, Cloned(g, gpos[g].idx))]
                          ELSE children
           /\ gpos' = [gpos EXCEPT
                         ![g] = Position(guide, "programme", gpos[g].idx + 1)]
    /\ UNCHANGED <<sorted_guides, channel_mapping, epg_children>>
    /\ UNCHANGED <<managerVars, streamVars, urlVars, filterVars, sourceVars, callVars>>

\* epg_children.lock().unwrap().extend(children)
Extend(g) ==
    /\ gpos[g].pass = "extend"
    /\ epg_children' = epg_children \o children[g]
    /\ gpos' = [gpos EXCEPT ![g] = [pass |-> "done", idx |-> 1]]
    /\ UNCHANGED <<sorted_guides, channel_mapping, children>>
    /\ UNCHANGED <<managerVars, streamVars, urlVars, filterVars, sourceVars, callVars>>

\* the manager is not involved in a merge
ManagerIdle ==
    /\ user = [u \in Users |-> NoUser]
    /\ now = 1
    /\ gc_ts = now
    /\ grace_period_millis = GraceMillis
    /\ ticks = 0
    /\ req = [r \in Requests |-> IdleRequest]
    /\ created = 0
    /\ live = [u \in Users |-> 0]
    /\ pending = [u \in Users |-> 0]

\* flatten_tvguide(tv_guides) up to the start of the parallel iteration
InitEpg ==
    /\ \E tv_guides \in [Guides -> [priority : Priorities, children : GuideChildren]] :
          sorted_guides = SortByPriority(
              [g \in Guides |-> [priority |-> tv_guides[g].priority,
                                 children |-> tv_guides[g].children,
                                 src |-> g]])
    /\ channel_mapping = <<>>
    /\ gpos = [g \in Guides |-> Position(sorted_guides[g], "channel", 1)]
    /\ children = [g \in Guides |-> <<>>]
    /\ epg_children = <<>>
    /\ ManagerIdle
    /\ StreamIdle
    /\ UrlIdle
    /\ FilterIdle
    /\ OthersIdle

NextEpg ==
    \/ \E g \in Guides : ChannelCheck(g)
    \/ \E g \in Guides : ChannelWrite(g)
    \/ \E g \in Guides : ProgrammeCheck(g)
    \/ \E g \in Guides : Extend(g)

\* one call of flatten_tvguide under every interleaving of its closures
SpecEpg == InitEpg /\ [][NextEpg]_vars

\* for_each has returned: the merged Epg is built from epg_children
AllDone == \A g \in Guides : gpos[g].pass = "done"

\* does the guide hold a channel tag of this id?
HasChannel(g, chan_id) ==
    \E k \in 1..Len(sorted_guides[g].children) :
        /\ sorted_guides[g].children[k].name = EPG_TAG_CHANNEL
        /\ sorted_guides[g].children[k].id = chan_id

----------------------------------------------------------------------------
(* stream_response and force_provider_stream_response. The provider          *)
(* allocator, the ActiveClientStream and the SharedStreamManager are not part *)
(* of the sources at hand; they follow their description: acquire counts a    *)
(* connection for Available and GracePeriod, a guard gives its connection     *)
(* back when it is dropped, the client stream owns the guard of the details   *)
(* it is built from until the body ends, and a shared stream owns its         *)
(* publisher's source until its last subscriber has left.                     *)

\* stream responses built concurrently, all for the same stream url
NumStreams == 2

Streams == 1..NumStreams
\* the provider's max_connections
ProviderBudgets == {1, 2}
ItemTypes == {"Live", "Video"}
\* PlaylistItemType
PlaylistItemTypes ==
    {"Live", "Video", "Series", "SeriesInfo", "Catchup", "LiveHls", "LiveDash"}
Allocations == {"Available", "GracePeriod", "Exhausted"}

\* user_added: a UserConnectionGuard was taken for the response (by the client
\* stream); session: create_user_session was called; status: the http status
IdleStream ==
    [pc |-> "idle", kind |-> "stream", item_type |-> "Live", share |-> FALSE,
     permission |-> "Allowed",
     allocation |-> "None", state |-> "None", guard |-> "none",
     stream |-> "none",
     response |-> "none", status |-> "none", released |-> 0,
     user_added |-> FALSE, session |-> FALSE]
NoShared == [publisher |-> 0, subscribers |-> {}]

\* is_stream_share_enabled with the LiveHls alternative the code comments out
is_stream_share_enabled_WithHls(item_type, share_live_streams) ==
    item_type \in {"Live", "LiveHls"} /\ share_live_streams

\* is_stream_share_enabled(item_type, target)
is_stream_share_enabled(item_type, share_live_streams) ==
    item_type = "Live" /\ share_live_streams

\* active_provider.acquire_connection / force_exact_acquire_connection
acquire_connection ==
    IF provider.connections < provider.max_connections
    THEN [allocation |-> "Available",
          provider |-> [provider EXCEPT !.connections = @ + 1]]
    ELSE IF provider.grace /\ ~provider.granted_grace
    THEN [allocation |-> "GracePeriod",
          provider |-> [provider EXCEPT !.connections = @ + 1,
                                        !.granted_grace = TRUE]]
    ELSE [allocation |-> "Exhausted", provider |-> provider]

\* ProviderConnectionGuard::drop for a guard of this allocation
release_connection(p, allocation) ==
    IF allocation \in {"Available", "GracePeriod"}
    THEN [p EXCEPT !.connections = @ - 1,
                   !.granted_grace = @ /\ p.connections - 1 >= p.max_connections]
    ELSE p

\* the provider after the step that took the request from r to r2
ProviderAfter(r, r2) ==
    IF r2.released > r.released
    THEN release_connection(provider, r.allocation)
    ELSE provider

\* a drop that leaves the guard where it is
drop_guard_Forgotten(r) ==
    r

\* drop(provider_connection_guard.take()): the guard an Option holds is dropped
drop_guard(r) ==
    IF r.guard \in {"strategy", "details", "client", "shared"}
    THEN [r EXCEPT !.guard = "dropped", !.released = @ + 1]
    ELSE r

\* a strategy that reports every obtained connection as Available
provider_stream_state_NoGrace(allocation) ==
    IF allocation = "Exhausted" THEN "Custom" ELSE "Available"

\* resolve_streaming_strategy: the ProviderStreamState chosen for an allocation
provider_stream_state(allocation) ==
    IF allocation = "Exhausted" THEN "Custom"
    ELSE IF allocation = "Available" THEN "Available"
    ELSE "GracePeriod"

\* resolve_streaming_strategy: the connection is acquired; an exhausted
\* provider gives the canned stream, if one is configured
resolve_streaming_strategy(r, allocation, canned) ==
    [r EXCEPT !.allocation = allocation,
              !.state = provider_stream_state(allocation),
              !.guard = "strategy",
              !.stream = IF allocation = "Exhausted" /\ canned
                         THEN "canned" ELSE "none"]

\* create_stream_response_details after the strategy is resolved; opened says
\* whether the url parses and create_provider_stream gives a stream
create_stream_response_details(r, opened) ==
    IF r.allocation = "Exhausted"
    THEN [r EXCEPT !.guard = "details"]
    ELSE IF opened
    THEN [r EXCEPT !.stream = "provider", !.guard = "details"]
    ELSE drop_guard(r)

has_stream(r) == r.stream # "none"

\* stream_response, the response of a stream that is not shared: a session is
\* created when the guard names a provider and the item is one of LiveHls,
\* LiveDash, Video, Series, Catchup
creates_user_session(r) ==
    /\ r.kind = "stream"
    /\ r.allocation \in {"Available", "GracePeriod"}
    /\ r.item_type \in {"LiveHls", "LiveDash", "Video", "Series", "Catchup"}

\* stream_response without the early return for an exhausted user
stream_response_begin_NoEarlyReturn(r, item_type, share_live_streams, connection_permission_) ==
    LET share_stream == is_stream_share_enabled(item_type, share_live_streams)
    IN  [r EXCEPT !.permission = connection_permission_,
                  !.item_type = item_type,
                  !.share = share_stream,
                  !.pc = IF share_stream THEN "share_check" ELSE "resolve"]

\* stream_response up to the look-up of the shared stream: an exhausted user is
\* answered at once with the canned user_connections_exhausted response
stream_response_begin(r, item_type, share_live_streams, connection_permission_) ==
    IF connection_permission_ = "Exhausted"
    THEN [r EXCEPT !.permission = connection_permission_,
                   !.item_type = item_type,
                   !.response = "user_connections_exhausted",
                   !.status = "custom", !.pc = "done"]
    ELSE LET share_stream == is_stream_share_enabled(item_type, share_live_streams)
         IN  [r EXCEPT !.permission = connection_permission_,
                       !.item_type = item_type,
                       !.share = share_stream,
                       !.pc = IF share_stream THEN "share_check" ELSE "resolve"]

\* stream_response is called
StreamResponse(s, item_type, share_live_streams, connection_permission_) ==
    /\ sreq[s].pc = "idle"
    /\ sreq' = [sreq EXCEPT ![s] =
          stream_response_begin(@, item_type, share_live_streams,
                                connection_permission_)]
    /\ UNCHANGED <<provider, shared>>
    /\ UNCHANGED <<managerVars, epgVars, urlVars, filterVars, sourceVars, callVars>>

\* force_provider_stream_response is called
ForceProviderStreamResponse(s) ==
    /\ sreq[s].pc = "idle"
    /\ sreq' = [sreq EXCEPT ![s] = [@ EXCEPT !.kind = "forced", !.pc = "resolve"]]
    /\ UNCHANGED <<provider, shared>>
    /\ UNCHANGED <<managerVars, epgVars, urlVars, filterVars, sourceVars, callVars>>

\* shared_stream_response: join the shared stream of the url if there is one
SharedStreamResponse(s) ==
    /\ sreq[s].pc = "share_check"
    /\ IF shared.publisher # 0
       THEN /\ shared' = [shared EXCEPT !.subscribers = @ \cup {s}]
            /\ sreq' = [sreq EXCEPT ![s] = [@ EXCEPT !.stream = "shared",
                                                      !.response = "body",
                                                      !.status = "OK",
                                                      !.user_added = TRUE,
                                                      !.pc = "streaming"]]
       ELSE /\ shared' = shared
            /\ sreq' = [sreq EXCEPT ![s].pc = "resolve"]
    /\ UNCHANGED provider
    /\ UNCHANGED <<managerVars, epgVars, urlVars, filterVars, sourceVars, callVars>>

\* create_stream_response_details, first part: resolve_streaming_strategy
ResolveStreamingStrategy(s) ==
    /\ sreq[s].pc = "resolve"
    /\ \E canned \in BOOLEAN :
          sreq' = [sreq EXCEPT ![s] =
              [resolve_streaming_strategy(@, acquire_connection.allocation, canned)
                  EXCEPT !.pc = "open"]]
    /\ provider' = acquire_connection.provider
    /\ UNCHANGED shared
    /\ UNCHANGED <<managerVars, epgVars, urlVars, filterVars, sourceVars, callVars>>

\* create_stream_response_details, second part: the provider stream is opened
CreateStreamResponseDetails(s) ==
    /\ sreq[s].pc = "open"
    /\ \E opened \in BOOLEAN :
          LET r2 == create_stream_response_details(sreq[s], opened)
          IN  /\ sreq' = [sreq EXCEPT ![s] = [r2 EXCEPT !.pc = "details"]]
              /\ provider' = ProviderAfter(sreq[s], r2)
    /\ UNCHANGED shared
    /\ UNCHANGED <<managerVars, epgVars, urlVars, filterVars, sourceVars, callVars>>

\* the details have a stream: ActiveClientStream::new takes the details, and
\* with them the guard; the response of a stream that is not shared is built
ClientStream(s) ==
    /\ sreq[s].pc = "details"
    /\ has_stream(sreq[s])
    /\ sreq' = [sreq EXCEPT ![s] =
          IF @.share
          THEN [@ EXCEPT !.guard = "client", !.user_added = TRUE,
                         !.pc = "subscribe"]
          ELSE [@ EXCEPT !.guard = "client", !.user_added = TRUE,
                         !.session = creates_user_session(sreq[s]),
                         !.response = "body", !.status = "provider",
                         !.pc = "streaming"]]
    /\ UNCHANGED <<provider, shared>>
    /\ UNCHANGED <<managerVars, epgVars, urlVars, filterVars, sourceVars, callVars>>

\* the answer when the details have no stream: force_provider_stream_response
\* answers the canned channel_unavailable stream, if one is configured, in a
\* response built with StatusCode::OK, else BAD_REQUEST; stream_response
\* answers BAD_REQUEST
no_stream_response(r, canned) ==
    IF r.kind = "forced" /\ canned
    THEN [r EXCEPT !.response = "channel_unavailable", !.status = "OK"]
    ELSE [r EXCEPT !.response = "bad_request", !.status = "BAD_REQUEST"]

\* the details have no stream: the guard is dropped; stream_response answers
\* BAD_REQUEST, force_provider_stream_response the canned channel-unavailable
\* stream if one is configured
NoStreamResponse(s) ==
    /\ sreq[s].pc = "details"
    /\ ~has_stream(sreq[s])
    /\ \E canned \in BOOLEAN :
          LET r2 == no_stream_response(drop_guard(sreq[s]), canned)
          IN  /\ sreq' = [sreq EXCEPT ![s] = [r2 EXCEPT !.pc = "done"]]
              /\ provider' = ProviderAfter(sreq[s], r2)
    /\ UNCHANGED shared
    /\ UNCHANGED <<managerVars, epgVars, urlVars, filterVars, sourceVars, callVars>>

\* SharedStreamManager::subscribe: the first caller becomes the publisher and
\* the shared stream owns its source; the source of a later caller is dropped
Subscribe(s) ==
    /\ sreq[s].pc = "subscribe"
    /\ IF shared.publisher = 0
       THEN /\ shared' = [shared EXCEPT !.publisher = s]
            /\ sreq' = [sreq EXCEPT ![s] = [@ EXCEPT !.guard = "shared",
                                                      !.pc = "attach"]]
            /\ provider' = provider
       ELSE LET r2 == drop_guard(sreq[s])
            IN  /\ shared' = shared
                /\ sreq' = [sreq EXCEPT ![s] = [r2 EXCEPT !.pc = "attach"]]
                /\ provider' = ProviderAfter(sreq[s], r2)
    /\ UNCHANGED <<managerVars, epgVars, urlVars, filterVars, sourceVars, callVars>>

\* SharedStreamManager::subscribe_shared_stream after subscribe
SubscribeSharedStream(s) ==
    /\ sreq[s].pc = "attach"
    /\ IF shared.publisher # 0
       THEN /\ shared' = [shared EXCEPT !.subscribers = @ \cup {s}]
            /\ sreq' = [sreq EXCEPT ![s] = [@ EXCEPT !.response = "body",
                                                      !.status = "provider",
                                                      !.pc = "streaming"]]
       ELSE /\ shared' = shared
            /\ sreq' = [sreq EXCEPT ![s] = [@ EXCEPT !.response = "bad_request",
                                                      !.status = "BAD_REQUEST",
                                                      !.pc = "done"]]
    /\ UNCHANGED provider
    /\ UNCHANGED <<managerVars, epgVars, urlVars, filterVars, sourceVars, callVars>>

\* the response body ends (end of stream, error or the client leaves): the
\* client stream is dropped and with it the guard it owns; a shared stream
\* that loses its last subscriber is torn down and drops its publisher's source
BodyEnd(s) ==
    /\ sreq[s].pc = "streaming"
    /\ IF s \in shared.subscribers
       THEN LET left == shared.subscribers \ {s}
                p    == shared.publisher
                r2   == IF left = {} THEN drop_guard(sreq[p]) ELSE sreq[p]
            IN  /\ shared' = IF left = {} THEN NoShared
                             ELSE [shared EXCEPT !.subscribers = left]
                /\ sreq' = [[sreq EXCEPT ![p] = r2] EXCEPT ![s].pc = "done"]
                /\ provider' = ProviderAfter(sreq[p], r2)
       ELSE LET r2 == drop_guard(sreq[s])
            IN  /\ shared' = shared
                /\ sreq' = [sreq EXCEPT ![s] = [r2 EXCEPT !.pc = "done"]]
                /\ provider' = ProviderAfter(sreq[s], r2)
    /\ UNCHANGED <<managerVars, epgVars, urlVars, filterVars, sourceVars, callVars>>

InitStream ==
    /\ sreq = [s \in Streams |-> IdleStream]
    /\ \E max_connections \in ProviderBudgets, grace \in BOOLEAN :
          provider = [connections |-> 0, granted_grace |-> FALSE,
                      max_connections |-> max_connections, grace |-> grace]
    /\ shared = NoShared
    /\ ManagerIdle
    /\ EpgIdle
    /\ UrlIdle
    /\ FilterIdle
    /\ OthersIdle

NextStream ==
    \/ \E s \in Streams, item_type \in ItemTypes, share_live_streams \in BOOLEAN,
          p \in Permissions : StreamResponse(s, item_type, share_live_streams, p)
    \/ \E s \in Streams : ForceProviderStreamResponse(s)
    \/ \E s \in Streams : SharedStreamResponse(s)
    \/ \E s \in Streams : ResolveStreamingStrategy(s)
    \/ \E s \in Streams : CreateStreamResponseDetails(s)
    \/ \E s \in Streams : ClientStream(s)
    \/ \E s \in Streams : NoStreamResponse(s)
    \/ \E s \in Streams : Subscribe(s)
    \/ \E s \in Streams : SubscribeSharedStream(s)
    \/ \E s \in Streams : BodyEnd(s)

\* concurrent stream responses on one provider
SpecStream == InitStream /\ [][NextStream]_vars

\* the provider has no grace period and the users are below their limit or
\* above it
InitShare ==
    /\ sreq = [s \in Streams |-> IdleStream]
    /\ \E max_connections \in ProviderBudgets :
          provider = [connections |-> 0, granted_grace |-> FALSE,
                      max_connections |-> max_connections, grace |-> FALSE]
    /\ shared = NoShared
    /\ ManagerIdle
    /\ EpgIdle
    /\ UrlIdle
    /\ FilterIdle
    /\ OthersIdle

NextShare ==
    \/ \E s \in Streams, item_type \in PlaylistItemTypes,
          share_live_streams \in BOOLEAN, p \in {"Allowed", "Exhausted"} :
             StreamResponse(s, item_type, share_live_streams, p)
    \/ \E s \in Streams : SharedStreamResponse(s)
    \/ \E s \in Streams : ResolveStreamingStrategy(s)
    \/ \E s \in Streams : CreateStreamResponseDetails(s)
    \/ \E s \in Streams : ClientStream(s)
    \/ \E s \in Streams : NoStreamResponse(s)
    \/ \E s \in Streams : Subscribe(s)
    \/ \E s \in Streams : SubscribeSharedStream(s)
    \/ \E s \in Streams : BodyEnd(s)

\* concurrent calls of stream_response for items of every type
SpecShare == InitShare /\ [][NextShare]_vars

\* the guards that hold a connection of the provider
HeldGuards ==
    {s \in Streams : /\ sreq[s].allocation \in {"Available", "GracePeriod"}
                     /\ sreq[s].guard \in {"strategy", "details", "client", "shared"}}

----------------------------------------------------------------------------
(* get_stream_alternative_url and get_redirect_alternative_url. A string is  *)
(* a sequence of characters. ConfigInput::get_user_info and                   *)
(* get_matched_config_by_url are not part of the sources at hand: the first   *)
(* gives the base url and the credentials of a provider that has both a       *)
(* username and a password, the second the base url and the optional          *)
(* credentials of the input when the url starts with its base url.            *)

\* the urls rewritten are a base url followed by at most MaxPathLen characters
MaxPathLen == 3

UrlChars == {"a", "b", "u", "v", "p", "q", "x"}
\* an absent username or password (Option::None)
NoCred == <<>>
Provider(base_url, username, password) ==
    [base_url |-> base_url, username |-> username, password |-> password]
\* the providers: two accounts on two hosts, one whose username is the other's
\* password, one without credentials and two accounts on the same host
ProviderConfigs ==
    { Provider(<<"a">>, <<"u">>, <<"p">>),
      Provider(<<"b">>, <<"v">>, <<"q">>),
      Provider(<<"b">>, <<"p">>, <<"q">>),
      Provider(<<"a">>, NoCred, NoCred),
      Provider(<<"a">>, <<"v">>, <<"q">>) }

RECURSIVE SeqsUpTo(_, _)
SeqsUpTo(chars, n) ==
    IF n = 0 THEN {<<>>}
    ELSE LET shorter == SeqsUpTo(chars, n - 1)
         IN  shorter \cup {Append(t, c) : t \in shorter, c \in chars}

Urls == {b \o path : b \in {<<"a">>, <<"b">>}, path \in SeqsUpTo(UrlChars, MaxPathLen)}

starts_with(str, pat) ==
    Len(pat) <= Len(str) /\ SubSeq(str, 1, Len(pat)) = pat

\* str::replacen(from, to, count): the first count matches, found from left to
\* right without overlap, are replaced
RECURSIVE replacen(_, _, _, _)
replacen(str, from, to, count) ==
    IF count = 0 \/ Len(str) < Len(from) THEN str
    ELSE IF starts_with(str, from)
    THEN to \o replacen(SubSeq(str, Len(from) + 1, Len(str)), from, to, count - 1)
    ELSE <<Head(str)>> \o replacen(Tail(str), from, to, count)

\* str::replace(from, to): every match is replaced
replace(str, from, to) == replacen(str, from, to, Len(str))

\* ConfigInput::get_user_info is Some
has_user_info(p) == p.username # NoCred /\ p.password # NoCred

\* get_stream_alternative_url with replacen(.., 1) in the place of replace
get_stream_alternative_url_Once(stream_url, input, alias_input) ==
    IF ~has_user_info(input) \/ ~has_user_info(alias_input) THEN stream_url
    ELSE LET m1 == replacen(stream_url, input.base_url, alias_input.base_url, 1)
             m2 == replacen(m1, input.username, alias_input.username, 1)
         IN  replacen(m2, input.password, alias_input.password, 1)

\* get_stream_alternative_url(stream_url, input, alias_input)
get_stream_alternative_url(stream_url, input, alias_input) ==
    IF ~has_user_info(input) \/ ~has_user_info(alias_input) THEN stream_url
    ELSE LET m1 == replace(stream_url, input.base_url, alias_input.base_url)
             m2 == replace(m1, input.username, alias_input.username)
         IN  replace(m2, input.password, alias_input.password)

\* get_redirect_alternative_url(app_state, redirect_url, input) when
\* get_next_provider gives provider_cfg
get_redirect_alternative_url(redirect_url, input, provider_cfg) ==
    IF ~starts_with(redirect_url, input.base_url) THEN redirect_url
    ELSE LET new_url == replacen(redirect_url, input.base_url, provider_cfg.base_url, 1)
         IN  IF input.username # NoCred /\ input.password # NoCred
             THEN IF provider_cfg.username # NoCred /\ provider_cfg.password # NoCred
                  THEN replacen(replacen(new_url, input.username,
                                         provider_cfg.username, 1),
                                input.password, provider_cfg.password, 1)
                  ELSE redirect_url
             ELSE new_url

NoUrl == <<"none">>
\* the provider of an allocation: the requesting input or an alias of it
ProviderIds == {"input", "alias"}

\* a strategy that looks at the allocated provider only
keeps_stream_url_IgnorePin(force_provider, provider_id) ==
    provider_id = "input"

\* resolve_streaming_strategy: force_provider.is_some() || provider.id == input.id
keeps_stream_url(force_provider, provider_id) ==
    force_provider \/ provider_id = "input"

\* resolve_streaming_strategy, the provider name and the url of the state for
\* an Available or GracePeriod allocation of the provider provider_id
strategy_provider_url(stream_url, input, force_provider, provider_id, alias_input) ==
    IF keeps_stream_url(force_provider, provider_id)
    THEN [provider_name |-> "input", url |-> stream_url]
    ELSE [provider_name |-> "alias",
          url |-> get_stream_alternative_url(stream_url, input, alias_input)]

\* resolve_streaming_strategy gets a connection of the input or of its alias,
\* with or without a pinned provider
ResolveStrategyUrl ==
    /\ rw.fn = "none"
    /\ \E force_provider \in BOOLEAN, provider_id \in ProviderIds :
          LET t == strategy_provider_url(rw.url, rw.from, force_provider,
                                         provider_id, rw.to)
          IN  rw' = [rw EXCEPT !.fn = "strategy",
                               !.force_provider = force_provider,
                               !.provider_id = provider_id,
                               !.provider_name = t.provider_name,
                               !.out = t.url]
    /\ UNCHANGED <<managerVars, epgVars, streamVars, filterVars, sourceVars, callVars>>

\* the url is rewritten for the stream of an alias
StreamAlternativeUrl ==
    /\ rw.fn = "none"
    /\ rw' = [rw EXCEPT !.fn = "stream",
                        !.out = get_stream_alternative_url(rw.url, rw.from, rw.to)]
    /\ UNCHANGED <<managerVars, epgVars, streamVars, filterVars, sourceVars, callVars>>

\* the url is rewritten for a redirect
RedirectAlternativeUrl ==
    /\ rw.fn = "none"
    /\ rw' = [rw EXCEPT !.fn = "redirect",
                        !.out = get_redirect_alternative_url(rw.url, rw.from, rw.to)]
    /\ UNCHANGED <<managerVars, epgVars, streamVars, filterVars, sourceVars, callVars>>

\* the result is rewritten with the providers exchanged
RewriteBack ==
    /\ rw.fn \in {"stream", "redirect"}
    /\ rw.back = NoUrl
    /\ rw' = [rw EXCEPT !.back =
                 IF rw.fn = "stream"
                 THEN get_stream_alternative_url(rw.out, rw.to, rw.from)
                 ELSE get_redirect_alternative_url(rw.out, rw.to, rw.from)]
    /\ UNCHANGED <<managerVars, epgVars, streamVars, filterVars, sourceVars, callVars>>

InitUrl ==
    /\ \E url \in Urls, from \in ProviderConfigs, to \in ProviderConfigs :
          rw = [url |-> url, from |-> from, to |-> to,
                fn |-> "none", out |-> NoUrl, back |-> NoUrl,
                force_provider |-> FALSE, provider_id |-> "none",
                provider_name |-> "none"]
    /\ ManagerIdle
    /\ EpgIdle
    /\ StreamIdle
    /\ FilterIdle
    /\ OthersIdle

NextUrl ==
    \/ StreamAlternativeUrl
    \/ RedirectAlternativeUrl
    \/ RewriteBack
    \/ ResolveStrategyUrl

\* one url rewritten from a provider to another and back
SpecUrl == InitUrl /\ [][NextUrl]_vars

\* the number of matches of pat in str, counted from left to right without
\* overlap
RECURSIVE Occurrences(_, _)
Occurrences(str, pat) ==
    IF Len(str) < Len(pat) THEN 0
    ELSE IF starts_with(str, pat)
    THEN 1 + Occurrences(SubSeq(str, Len(pat) + 1, Len(str)), pat)
    ELSE Occurrences(Tail(str), pat)

----------------------------------------------------------------------------
(* process_epg_file: filter_tags is called for every channel and programme   *)
(* tag of the file, in the order of the file. The EpgIdCache is not part of   *)
(* the sources at hand: match_with_normalized matches an id the playlist      *)
(* asks for or a normalized name that is a key of the normalized index, and   *)
(* binds the key to the id; the phonetics index holds the keys of the         *)
(* normalized index under their phonetic code.                                *)

\* the file holds at most MaxTags tags
MaxTags == 3

None == "None"
\* a channel tag after prepare_tag: its id and the normalized display name
ChannelTag(chan_id, normalized) ==
    [name |-> EPG_TAG_CHANNEL, id |-> chan_id, normalized_epg_ids |-> <<normalized>>]
\* a programme tag: its channel attribute
ProgrammeTag(chan_id) ==
    [name |-> EPG_TAG_PROGRAMME, id |-> chan_id, normalized_epg_ids |-> <<>>]
DisplayNames == {"hbohd", "hbohq"}
FileTags ==
    {ChannelTag(c, n) : c \in ChanIds, n \in DisplayNames}
        \cup {ProgrammeTag(c) : c \in ChanIds}
\* the normalized names of the playlist's channels
NormalizedKeySets ==
    { {}, {"hbohd"}, {"cnn"}, {"hboq", "cnn"}, {"hbohd", "hboq"} }
\* smart_match: enabled, fuzzy_matching, match_threshold, best_match_threshold
SmartMatch(enabled, fuzzy_matching, match_threshold, best_match_threshold) ==
    [enabled |-> enabled, fuzzy_matching |-> fuzzy_matching,
     match_threshold |-> match_threshold,
     best_match_threshold |-> best_match_threshold]
SmartMatchConfigs ==
    { SmartMatch(FALSE, FALSE, 80, 99), SmartMatch(FALSE, TRUE, 80, 99),
      SmartMatch(TRUE, FALSE, 80, 99), SmartMatch(TRUE, TRUE, 80, 99),
      SmartMatch(TRUE, TRUE, 93, 94) }

\* EpgIdCache::phonetic: the names that start alike share a code
phonetic(name) == IF name = "cnn" THEN "KN" ELSE "HB"

\* strsim::jaro_winkler(norm_key, tag_normalized) * 100, rounded, for the names
\* at hand
jaro_winkler(norm_key, tag_normalized) ==
    IF norm_key = tag_normalized THEN 100
    ELSE IF {norm_key, tag_normalized} = {"hbohd", "hbohq"} THEN 92
    ELSE IF {norm_key, tag_normalized} = {"hboq", "hbohq"} THEN 95
    ELSE IF {norm_key, tag_normalized} = {"hboq", "hbohd"} THEN 85
    ELSE 0

Min(a, b) == IF a < b THEN a ELSE b
Range(seq) == {seq[i] : i \in 1..Len(seq)}

\* id_cache.phonetics.get(&tag_code): the keys filed under the code
phonetics(cache, tag_code) ==
    {k \in DOMAIN cache.normalized : phonetic(k) = tag_code}

\* find_best_fuzzy_match: the keys of the tag's phonetic buckets whose score
\* reaches match_threshold
fuzzy_candidates(cache, tag) ==
    {k \in DOMAIN cache.normalized :
        \E tag_normalized \in Range(tag.normalized_epg_ids) :
            /\ k \in phonetics(cache, phonetic(tag_normalized))
            /\ Min(100, jaro_winkler(k, tag_normalized))
                   >= cache.smart_match_config.match_threshold}

\* the score find_best_fuzzy_match gives a key
mjw(k, tag) ==
    CHOOSE m \in 0..100 :
        /\ \E n \in Range(tag.normalized_epg_ids) : m = Min(100, jaro_winkler(k, n))
        /\ \A n \in Range(tag.normalized_epg_ids) : m >= Min(100, jaro_winkler(k, n))

\* find_best_fuzzy_match: the keys the data may hold after the parallel search:
\* the best-scoring ones, or, when the search stops at a key above
\* best_match_threshold, any key that was scored before it stopped
fuzzy_data(cache, tag) ==
    LET cands == fuzzy_candidates(cache, tag)
    IN  IF \E k \in cands : mjw(k, tag) > cache.smart_match_config.best_match_threshold
        THEN cands
        ELSE {k \in cands : \A k2 \in cands : mjw(k2, tag) <= mjw(k, tag)}

\* find_best_fuzzy_match: the flag is created false and no statement stores to
\* it
early_exit_flag == FALSE

\* find_best_fuzzy_match(id_cache, tag): the results it can give
find_best_fuzzy_match(cache, tag) ==
    IF early_exit_flag
    THEN {[fuzzy_matched |-> TRUE, matched_normalized_name |-> k] :
             k \in fuzzy_data(cache, tag) \cup
                   (IF fuzzy_data(cache, tag) = {} THEN {None} ELSE {})}
    ELSE {[fuzzy_matched |-> FALSE, matched_normalized_name |-> None]}

\* id_cache.normalized.entry(key).and_modify(..): the key is bound to the id
\* and the id is one the playlist asks for
bind(cache, key, epg_id) ==
    IF key \in DOMAIN cache.normalized
    THEN [cache EXCEPT !.normalized[key] = epg_id,
                       !.channel_epg_id = @ \cup {epg_id}]
    ELSE cache

\* the keys match_with_normalized finds for the names of a tag
normalized_keys(cache, ids) == Range(ids) \cap DOMAIN cache.normalized

\* EpgIdCache::match_with_normalized(epg_id, ids)
match_with_normalized(cache, epg_id, ids) ==
    IF epg_id \in cache.channel_epg_id
    THEN [matched |-> TRUE, cache |-> cache]
    ELSE IF normalized_keys(cache, ids) # {}
    THEN [matched |-> TRUE,
          cache |-> bind(cache, CHOOSE k \in normalized_keys(cache, ids) : TRUE,
                         epg_id)]
    ELSE [matched |-> FALSE, cache |-> cache]

\* try_fuzzy_matching(id_cache, epg_id, tag, fuzzy_matching), where fuzzy is
\* the result of find_best_fuzzy_match
try_fuzzy_matching(cache, epg_id, tag, fuzzy_matching, fuzzy) ==
    LET m == match_with_normalized(cache, epg_id, tag.normalized_epg_ids)
    IN  IF ~m.matched /\ fuzzy_matching /\ fuzzy.fuzzy_matched
           /\ fuzzy.matched_normalized_name \in DOMAIN cache.normalized
        THEN [matched |-> TRUE,
              cache |-> bind(m.cache, fuzzy.matched_normalized_name, epg_id)]
        ELSE m

\* filter_tags, EPG_TAG_PROGRAMME: the tag is kept
keeps_programme(cache, tag) ==
    tag.id \in cache.processed /\ tag.id \in cache.channel_epg_id

\* filter_tags that keeps a matching channel whether or not its id is processed
filter_tags_NoProcessedCheck(cache, kept, tag, fuzzy) ==
    IF tag.name = EPG_TAG_CHANNEL
    THEN IF tag.id # ""
         THEN IF cache.smart_match_config.enabled
              THEN LET fuzzy_matching == cache.smart_match_config.fuzzy_matching
                       m == try_fuzzy_matching(cache, tag.id, tag,
                                               fuzzy_matching, fuzzy)
                   IN  IF m.matched
                       THEN [cache |-> [m.cache EXCEPT !.processed = @ \cup {tag.id}],
                             children |-> Append(kept, tag)]
                       ELSE [cache |-> m.cache, children |-> kept]
              ELSE IF tag.id \in cache.channel_epg_id
              THEN [cache |-> [cache EXCEPT !.processed = @ \cup {tag.id}],
                    children |-> Append(kept, tag)]
              ELSE [cache |-> cache, children |-> kept]
         ELSE [cache |-> cache, children |-> kept]
    ELSE IF keeps_programme(cache, tag)
    THEN [cache |-> cache, children |-> Append(kept, tag)]
    ELSE [cache |-> cache, children |-> kept]

\* filter_tags(tag): the cache and the kept tags after the call
filter_tags(cache, kept, tag, fuzzy) ==
    IF tag.name = EPG_TAG_CHANNEL
    THEN IF tag.id # "" /\ tag.id \notin cache.processed
         THEN IF cache.smart_match_config.enabled
              THEN LET fuzzy_matching == cache.smart_match_config.fuzzy_matching
                       m == try_fuzzy_matching(cache, tag.id, tag,
                                               fuzzy_matching, fuzzy)
                   IN  IF m.matched
                       THEN [cache |-> [m.cache EXCEPT !.processed = @ \cup {tag.id}],
                             children |-> Append(kept, tag)]
                       ELSE [cache |-> m.cache, children |-> kept]
              ELSE IF tag.id \in cache.channel_epg_id
              THEN [cache |-> [cache EXCEPT !.processed = @ \cup {tag.id}],
                    children |-> Append(kept, tag)]
              ELSE [cache |-> cache, children |-> kept]
         ELSE [cache |-> cache, children |-> kept]
    ELSE IF keeps_programme(cache, tag)
    THEN [cache |-> cache, children |-> Append(kept, tag)]
    ELSE [cache |-> cache, children |-> kept]

\* parse_tvguide hands the next tag of the file to filter_tags
FilterTags ==
    /\ fpos <= Len(epg_file)
    /\ \E fuzzy \in find_best_fuzzy_match(id_cache, epg_file[fpos]) :
          LET r == filter_tags(id_cache, file_children, epg_file[fpos], fuzzy)
          IN  /\ id_cache' = r.cache
              /\ file_children' = r.children
    /\ fpos' = fpos + 1
    /\ UNCHANGED epg_file
    /\ UNCHANGED <<managerVars, epgVars, streamVars, urlVars, sourceVars, callVars>>

InitFilter ==
    /\ \E ids \in SUBSET ChanIds, keys \in NormalizedKeySets,
          config \in SmartMatchConfigs :
          id_cache = [channel_epg_id |-> ids,
                      processed |-> {},
                      normalized |-> [k \in keys |-> None],
                      smart_match_config |-> config]
    /\ epg_file \in SeqsUpTo(FileTags, MaxTags)
    /\ fpos = 1
    /\ file_children = <<>>
    /\ ManagerIdle
    /\ EpgIdle
    /\ StreamIdle
    /\ UrlIdle
    /\ OthersIdle

NextFilter == FilterTags

\* one epg file read with a fresh EpgIdCache
SpecFilter == InitFilter /\ [][NextFilter]_vars

\* the channel ids of the kept channel tags
KeptChannels ==
    {file_children[i].id : i \in {j \in 1..Len(file_children) :
                                     file_children[j].name = EPG_TAG_CHANNEL}}

\* the number of programme tags of a channel in a list of tags
Programmes(tags, chan_id) ==
    Cardinality({i \in 1..Len(tags) : tags[i] = ProgrammeTag(chan_id)})

----------------------------------------------------------------------------
(* TVGuide::filter: process_epg_file is called for every epg source, in the   *)
(* order of the sources, with the same EpgIdCache. CompressedFileReader is    *)
(* not part of the sources at hand: new gives an error for a file that        *)
(* cannot be opened or read.                                                  *)

\* filter is called with at most MaxSources epg sources
MaxSources == 2

\* a PersistedEpgSource: whether its file can be opened, its priority and the
\* tags of the file
EpgSource(readable, priority, tags) ==
    [readable |-> readable, priority |-> priority, tags |-> tags]
SourceFiles ==
    { <<>>,
      <<ChannelTag("c1", "hbohd"), ProgrammeTag("c1")>>,
      <<ChannelTag("c2", "hbohq"), ProgrammeTag("c2"), ProgrammeTag("c1")>> }
EpgSources ==
    {EpgSource(r, p, t) : r \in BOOLEAN, p \in Priorities, t \in SourceFiles}
\* the result of find_best_fuzzy_match where fuzzy matching is not enabled
NoFuzzyMatch == [fuzzy_matched |-> FALSE, matched_normalized_name |-> None]

\* a source that is read whether or not it can be opened
opens_Always(epg_source) ==
    TRUE

\* CompressedFileReader::new(&epg_source.file_path) is Ok
opens(epg_source) ==
    epg_source.readable

\* filter: nothing is asked for, None is returned
nothing_to_match(cache) ==
    cache.channel_epg_id = {} /\ DOMAIN cache.normalized = {}

\* filter is called
FilterBegin ==
    /\ sphase = "begin"
    /\ sphase' = IF nothing_to_match(id_cache) THEN "none" ELSE "open"
    /\ UNCHANGED <<filter_args, spos, filter_result>>
    /\ UNCHANGED <<managerVars, epgVars, streamVars, urlVars, filterVars, callVars>>

\* process_epg_file: the file of the next source is opened; a source that
\* cannot be opened gives None
OpenSource ==
    /\ sphase = "open"
    /\ spos <= Len(filter_args.epg_sources)
    /\ IF opens(filter_args.epg_sources[spos])
       THEN /\ epg_file' = filter_args.epg_sources[spos].tags
            /\ fpos' = 1
            /\ file_children' = <<>>
            /\ sphase' = "read"
            /\ spos' = spos
       ELSE /\ spos' = spos + 1
            /\ UNCHANGED <<epg_file, fpos, file_children, sphase>>
    /\ UNCHANGED <<id_cache, filter_args, filter_result>>
    /\ UNCHANGED <<managerVars, epgVars, streamVars, urlVars, callVars>>

\* process_epg_file: the file is read; None if no tag is kept, else the Epg
\* with the priority of the source
CloseSource ==
    /\ sphase = "read"
    /\ fpos > Len(epg_file)
    /\ filter_result' =
          IF file_children = <<>> THEN filter_result
          ELSE Append(filter_result,
                      [priority |-> filter_args.epg_sources[spos].priority,
                       children |-> file_children])
    /\ spos' = spos + 1
    /\ sphase' = "open"
    /\ UNCHANGED filter_args
    /\ UNCHANGED <<managerVars, epgVars, streamVars, urlVars, filterVars, callVars>>

\* filter: the Epgs collected are sorted by priority and returned
FilterReturn ==
    /\ sphase = "open"
    /\ spos > Len(filter_args.epg_sources)
    /\ filter_result' = SortByPriority(filter_result)
    /\ sphase' = "done"
    /\ UNCHANGED <<filter_args, spos>>
    /\ UNCHANGED <<managerVars, epgVars, streamVars, urlVars, filterVars, callVars>>

InitSources ==
    /\ \E ids \in SUBSET ChanIds, keys \in {{}, {"hbohd"}}, enabled \in BOOLEAN :
          id_cache = [channel_epg_id |-> ids,
                      processed |-> {},
                      normalized |-> [k \in keys |-> None],
                      smart_match_config |-> SmartMatch(enabled, FALSE, 80, 99)]
    /\ \E sources \in SeqsUpTo(EpgSources, MaxSources) :
          filter_args = [epg_sources |-> sources, id_cache |-> id_cache]
    /\ spos = 1
    /\ sphase = "begin"
    /\ filter_result = <<>>
    /\ epg_file = <<>>
    /\ fpos = 1
    /\ file_children = <<>>
    /\ ManagerIdle
    /\ EpgIdle
    /\ StreamIdle
    /\ UrlIdle
    /\ CallIdle

NextSources ==
    \/ FilterBegin
    \/ OpenSource
    \/ FilterTags
    \/ CloseSource
    \/ FilterReturn

\* one call of filter
SpecSources == InitSources /\ [][NextSources]_vars

\* the cache and the kept tags after filter_tags was called for all the tags
RECURSIVE ReadTags(_, _, _)
ReadTags(cache, kept, tags) ==
    IF tags = <<>> THEN [cache |-> cache, children |-> kept]
    ELSE LET r == filter_tags(cache, kept, Head(tags), NoFuzzyMatch)
         IN  ReadTags(r.cache, r.children, Tail(tags))

\* the Epgs of sources that can all be opened, in the order of the sources
RECURSIVE ReadSources(_, _)
ReadSources(cache, sources) ==
    IF sources = <<>> THEN <<>>
    ELSE LET r == ReadTags(cache, <<>>, Head(sources).tags)
             rest == ReadSources(r.cache, Tail(sources))
         IN  IF r.children = <<>> THEN rest
             ELSE <<[priority |-> Head(sources).priority,
                     children |-> r.children]>> \o rest

IsReadable(epg_source) == epg_source.readable

----------------------------------------------------------------------------
(* Functions of one call: the call is drawn with its arguments, the function  *)
(* returns. std::fs and utils::read_file_as_bytes are not part of the sources *)
(* at hand: the metadata of an existing file are read, File::open and         *)
(* read_file_as_bytes succeed for a file that may be read, read_exact fails   *)
(* on an empty file.                                                          *)

\* 10 * 1024 * 1024
MAX_RESPONSE_SIZE == 10485760
\* the MPEG-TS sync byte 0x47
SyncByte == 71

\* the files of the custom-response directory: len in bytes, first the first
\* byte of a file that is not empty
FileLens == {0, 1, 188, MAX_RESPONSE_SIZE, MAX_RESPONSE_SIZE + 1, 12 * 1024 * 1024}
FirstBytes == {0, SyncByte, SyncByte + 1}
ResponseFiles ==
    [exists : BOOLEAN, readable : BOOLEAN, len : FileLens, first : FirstBytes]

\* the value a call gave
Returned(value) == <<value>>

\* load_and_set_file without the check of the sync byte
load_and_set_file_NoSyncCheck(file) ==
    IF file.exists
    THEN IF file.len > MAX_RESPONSE_SIZE THEN None
         ELSE IF file.readable THEN "Some" ELSE None
    ELSE None

\* load_and_set_file(file_path): Some(TransportStreamBuffer) or None
load_and_set_file(file) ==
    IF file.exists
    THEN IF file.len > MAX_RESPONSE_SIZE THEN None
         ELSE IF file.readable /\ (file.len = 0 \/ file.first # SyncByte) THEN None
         ELSE IF file.readable THEN "Some" ELSE None
    ELSE None

\* prepare_custom_stream_response loads one of the files
LoadAndSetFile ==
    /\ call.fn = "load_and_set_file"
    /\ ret = <<>>
    /\ ret' = Returned(load_and_set_file(call.file))
    /\ UNCHANGED call
    /\ UNCHANGED <<managerVars, epgVars, streamVars, urlVars, filterVars, sourceVars>>

\* a response: its status and where its body comes from
Response(status, body) == [status |-> status, body |-> body]

\* serve_file(file_path, mime_type) for a file that exists or not and that
\* tokio::fs::File::open opens or not
serve_file(file) ==
    IF file.exists
    THEN IF file.opens THEN Response("OK", "file")
         ELSE Response("INTERNAL_SERVER_ERROR", "none")
    ELSE Response("NOT_FOUND", "none")

\* the requests of a resource: the url may be empty or malformed; the cache
\* may be configured, hold the resource (get_content), have its file, and
\* allow to create a new file; the upstream answers, with a success status or
\* not, or the request fails
ResourceRequests ==
    [url : {"empty", "malformed", "valid"}, cache : BOOLEAN, cached : BOOLEAN,
     exists : BOOLEAN, opens : BOOLEAN, create : BOOLEAN,
     upstream : {"success", "status", "failure"}]

\* resource_response(app_state, resource_url, req_headers, input)
resource_response(r) ==
    IF r.url = "empty" THEN Response("NO_CONTENT", "none")
    ELSE IF r.cache /\ r.cached THEN serve_file(r)
    ELSE IF r.url = "valid" /\ r.upstream = "success"
    THEN IF r.cache /\ r.create
         THEN Response("OK", "upstream, persisted")
         ELSE Response("OK", "upstream")
    ELSE Response("BAD_REQUEST", "none")

\* a resource is requested
ResourceResponse ==
    /\ call.fn = "resource_response"
    /\ ret = <<>>
    /\ ret' = Returned(resource_response(call.request))
    /\ UNCHANGED call
    /\ UNCHANGED <<managerVars, epgVars, streamVars, urlVars, filterVars, sourceVars>>

\* str::trim: the white space at both ends is removed
RECURSIVE trim_start(_)
trim_start(str) ==
    IF str # <<>> /\ Head(str) = " " THEN trim_start(Tail(str)) ELSE str
RECURSIVE trim_end(_)
trim_end(str) ==
    IF str # <<>> /\ str[Len(str)] = " "
    THEN trim_end(SubSeq(str, 1, Len(str) - 1)) ELSE str
trim(str) == trim_end(trim_start(str))

\* the user of the configuration: Config::get_target_for_user and
\* get_target_for_user_by_token find it by its credentials or by its token
ConfigUser == [username |-> <<"u">>, password |-> <<"p">>, token |-> <<"t">>]
get_target_for_user(username, password) ==
    IF username = ConfigUser.username /\ password = ConfigUser.password
    THEN [lookup |-> "user", target |-> "found"]
    ELSE [lookup |-> "user", target |-> None]
get_target_for_user_by_token(token) ==
    IF token = ConfigUser.token
    THEN [lookup |-> "token", target |-> "found"]
    ELSE [lookup |-> "token", target |-> None]

\* the requests: username, password and token as they were sent
UserApiRequests ==
    [username : {<<>>, <<" ">>, <<"u">>, <<" ", "u">>, <<"x">>},
     password : {<<>>, <<" ">>, <<"p">>, <<"p", " ">>, <<"x">>},
     token : {<<>>, <<" ">>, <<"t">>, <<" ", "t", " ">>, <<"x">>}]

\* get_user_target_by_credentials that asks for the token when the username
\* and the password are not found
get_user_target_by_credentials_Retry(username, password, api_req) ==
    IF username # <<>> /\ password # <<>>
          /\ get_target_for_user(username, password).target # None
    THEN get_target_for_user(username, password)
    ELSE LET token == trim(api_req.token)
         IN  IF token = <<>> THEN [lookup |-> "none", target |-> None]
             ELSE get_target_for_user_by_token(token)

\* get_user_target_by_credentials(username, password, api_req, app_state): the
\* lookup made and what it found
get_user_target_by_credentials(username, password, api_req) ==
    IF username # <<>> /\ password # <<>>
    THEN get_target_for_user(username, password)
    ELSE LET token == trim(api_req.token)
         IN  IF token = <<>> THEN [lookup |-> "none", target |-> None]
             ELSE get_target_for_user_by_token(token)

\* get_user_target(api_req, app_state)
get_user_target(api_req) ==
    get_user_target_by_credentials(trim(api_req.username), trim(api_req.password),
                                   api_req)

\* the user of a request is looked up
GetUserTarget ==
    /\ call.fn = "get_user_target"
    /\ ret = <<>>
    /\ ret' = Returned(get_user_target(call.api_req))
    /\ UNCHANGED call
    /\ UNCHANGED <<managerVars, epgVars, streamVars, urlVars, filterVars, sourceVars>>

\* the longest channel name
MaxNameLen == 5

\* the characters of the channel names; "R_sup" is the one character U+1D3F
NameChars == {"R", "U", "a", " ", ":", "R_sup"}
ChannelNames == SeqsUpTo(NameChars, MaxNameLen)

\* char::is_alphanumeric
is_alphanumeric(c) == c \in {"R", "U", "a", "r", "u", "R_sup"}

\* deunicode: a character that is not ASCII becomes its ASCII form
RECURSIVE deunicode(_)
deunicode(str) ==
    IF str = <<>> THEN <<>>
    ELSE (IF Head(str) = "R_sup" THEN <<"R">> ELSE <<Head(str)>>)
            \o deunicode(Tail(str))

\* str::to_lowercase
RECURSIVE to_lowercase(_)
to_lowercase(str) ==
    IF str = <<>> THEN <<>>
    ELSE <<CASE Head(str) = "R" -> "r"
             [] Head(str) = "U" -> "u"
             [] OTHER -> Head(str)>> \o to_lowercase(Tail(str))

\* CONSTANTS.country_codes
country_codes == {<<"r", "u">>}

\* EpgSmartMatchConfig: name_prefix, and what prepare() makes of the
\* separators, the strip list and the regular expression, which removes the
\* characters that are neither letters nor digits (dashes and underscores,
\* which no name here holds, stay)
EpgNamePrefix ==
    {[kind |-> "Ignore", sep |-> ""]}
        \cup [kind : {"Suffix", "Prefix"}, sep : {".", "-"}]
t_name_prefix_separator == <<":", "|">>
t_strip == << <<"a", "a">> >>

\* str::find of a character: the first index, 0 when there is none
find(str, c) ==
    IF \E i \in 1..Len(str) : str[i] = c
    THEN CHOOSE i \in 1..Len(str) : str[i] = c /\ \A j \in 1..(i - 1) : str[j] # c
    ELSE 0

\* str::trim_start_matches(|c| !c.is_alphanumeric())
RECURSIVE trim_start_not_alphanumeric(_)
trim_start_not_alphanumeric(str) ==
    IF str # <<>> /\ ~is_alphanumeric(Head(str))
    THEN trim_start_not_alphanumeric(Tail(str)) ELSE str

\* split_by_first_match(input, delimiters), from the delimiter at index d on
RECURSIVE split_from(_, _, _, _)
split_from(input, content, delimiters, d) ==
    IF d > Len(delimiters) THEN [prefix |-> None, rest |-> input]
    ELSE LET index == find(content, delimiters[d])
             left == SubSeq(content, 1, index - 1)
             right == trim(SubSeq(content, index + 1, Len(content)))
         IN  IF index # 0 /\ right # <<>> /\ trim(left) \in country_codes
             THEN [prefix |-> <<trim(left)>>, rest |-> right]
             ELSE split_from(input, content, delimiters, d + 1)
split_by_first_match(input, delimiters) ==
    split_from(input, trim_start_not_alphanumeric(input), delimiters, 1)

\* name_prefix(name, smart_config): the name and the prefix taken from it
name_prefix(name, config) ==
    IF config.kind # "Ignore"
          /\ split_by_first_match(name, t_name_prefix_separator).prefix # None
    THEN split_by_first_match(name, t_name_prefix_separator)
    ELSE [prefix |-> None, rest |-> name]

\* combine(join, left, right)
combine(join, left, right) == left \o <<".">> \o right

\* Regex::replace_all(channel_name, "")
RECURSIVE regex_replace_all(_)
regex_replace_all(str) ==
    IF str = <<>> THEN <<>>
    ELSE (IF is_alphanumeric(Head(str)) THEN <<Head(str)>> ELSE <<>>)
            \o regex_replace_all(Tail(str))

\* t_strip.iter().fold(cleaned_name, |acc, term| acc.replace(term, ""))
RECURSIVE strip_fold(_, _)
strip_fold(acc, terms) ==
    IF terms = <<>> THEN acc
    ELSE strip_fold(replace(acc, Head(terms), <<>>), Tail(terms))
cleaned_name(channel_name) == strip_fold(regex_replace_all(channel_name), t_strip)

\* normalize_channel_name(name, normalize_config)
normalize_channel_name(name, config) ==
    LET normalized == to_lowercase(deunicode(trim(name)))
        split == name_prefix(normalized, config)
    IN  IF split.prefix = None \/ config.kind = "Ignore" THEN cleaned_name(split.rest)
        ELSE IF config.kind = "Suffix"
        THEN combine(config.sep, cleaned_name(split.rest), split.prefix[1])
        ELSE combine(config.sep, split.prefix[1], cleaned_name(split.rest))

\* a channel name is normalized
NormalizeChannelName ==
    /\ call.fn = "normalize_channel_name"
    /\ ret = <<>>
    /\ ret' = Returned(normalize_channel_name(call.name, call.normalize_config))
    /\ UNCHANGED call
    /\ UNCHANGED <<managerVars, epgVars, streamVars, urlVars, filterVars, sourceVars>>

\* the longest input of separate_number_and_remainder
MaxInputLen == 4

\* the inputs: digits, letters and dots
NumberInputs == SeqsUpTo({"1", "a", "."}, MaxInputLen)

\* str::find('.') in place of str::rfind('.')
rfind_First(str, c) ==
    find(str, c)

\* str::rfind of a character: the last index, 0 when there is none
rfind(str, c) ==
    IF \E i \in 1..Len(str) : str[i] = c
    THEN CHOOSE i \in 1..Len(str) :
            str[i] = c /\ \A j \in (i + 1)..Len(str) : str[j] # c
    ELSE 0

\* separate_number_and_remainder(input): the number part and the rest, which
\* is <<>> for None and <<rest>> for Some(rest)
separate_number_and_remainder(input) ==
    LET dot_index == rfind(input, ".")
    IN  IF dot_index = 0 THEN [number_part |-> input, rest |-> <<>>]
        ELSE LET number_part == SubSeq(input, 1, dot_index - 1)
                 rest == SubSeq(input, dot_index, Len(input))
             IN  [number_part |-> number_part,
                  rest |-> IF Len(rest) < 2 THEN <<>> ELSE <<rest>>]

\* an input is split
SeparateNumberAndRemainder ==
    /\ call.fn = "separate_number_and_remainder"
    /\ ret = <<>>
    /\ ret' = Returned(separate_number_and_remainder(call.input))
    /\ UNCHANGED call
    /\ UNCHANGED <<managerVars, epgVars, streamVars, urlVars, filterVars, sourceVars>>

\* the highest configured rate
MaxKbps == 2

\* is_throttled_stream that leaves the series info out
is_throttled_stream_NoSeriesInfo(item_type, throttle_kbps) ==
    throttle_kbps > 0 /\ item_type \in {"Video", "Series", "Catchup"}

\* is_throttled_stream(item_type, throttle_kbps)
is_throttled_stream(item_type, throttle_kbps) ==
    throttle_kbps > 0 /\ item_type \in {"Video", "Series", "SeriesInfo", "Catchup"}

\* prepare_body_stream(app_state, item_type, stream): the stream the body is
\* made from; throttle_kbps is the configured rate as a usize
prepare_body_stream(throttle_kbps, item_type) ==
    IF is_throttled_stream(item_type, throttle_kbps)
    THEN "ThrottledStream" ELSE "ActiveClientStream"

\* the body of a client stream is made
PrepareBodyStream ==
    /\ call.fn = "prepare_body_stream"
    /\ ret = <<>>
    /\ ret' = Returned(prepare_body_stream(call.throttle_kbps, call.item_type))
    /\ UNCHANGED call
    /\ UNCHANGED <<managerVars, epgVars, streamVars, urlVars, filterVars, sourceVars>>

\* the ways a client stream gets its StreamDetails: from the stream of a
\* shared stream it joins (shared_stream_response) or from the provider
\* (create_stream_response_details)
DetailsCalls ==
    [fn : {"stream_details"},
     via : {"from_stream", "create_stream_response_details"},
     connection_permission : {"Allowed", "GracePeriod"},
     provider_stream_state : {"Custom", "Available", "GracePeriod"},
     config_grace_period_millis : {0, GraceMillis},
     default_grace_period_millis : {0, GraceMillis}]

\* get_grace_period_millis(connection_permission, stream_response_params,
\* config_grace_period_millis)
get_grace_period_millis(permission, provider_state, config_millis) ==
    IF config_millis > 0
          /\ (provider_state = "GracePeriod" \/ permission = "GracePeriod")
    THEN config_millis ELSE 0

\* StreamDetails::from_stream(stream): grace_period_millis of the details
from_stream(default_grace_period_millis) == default_grace_period_millis

\* grace_period_millis of the StreamDetails of a client stream
stream_details(c) ==
    IF c.via = "from_stream"
    THEN from_stream(c.default_grace_period_millis)
    ELSE get_grace_period_millis(c.connection_permission, c.provider_stream_state,
                                 c.config_grace_period_millis)

\* StreamDetails::has_grace_period
has_grace_period(grace_period_millis_) == grace_period_millis_ > 0

\* the StreamDetails of a client stream are made
MakeStreamDetails ==
    /\ call.fn = "stream_details"
    /\ ret = <<>>
    /\ ret' = Returned(stream_details(call))
    /\ UNCHANGED call
    /\ UNCHANGED <<managerVars, epgVars, streamVars, urlVars, filterVars, sourceVars>>

----------------------------------------------------------------------------
(* The mapper script (src/src/foundation/mapper.rs): the evaluation of a map  *)
(* block and of a match block. An f64 is counted in steps of 0.0005, so that  *)
(* 1 is 2000 and the epsilon of compare_number, 0.001, is 2.                  *)

\* the most cases of a block
MaxCases == 2

\* compare_number: let epsilon = 1e-3
epsilon == 2

\* EvalResult
EvalResult(kind, text, num) == [kind |-> kind, text |-> text, num |-> num]
Undefined == EvalResult("Undefined", "", 0)
Value(text) == EvalResult("Value", text, 0)
Number(num) == EvalResult("Number", "", num)
Named == EvalResult("Named", "1: east, 2: hd", 0)
AnyValue == EvalResult("AnyValue", "", 0)
Failure(text) == EvalResult("Failure", text, 0)

\* a name that MapperContext.variables does not hold
NoVar == EvalResult("no variable", "", 0)

\* what a variable of the context may be: not there, or the result of the
\* expression that was assigned to it
VarStates ==
    {NoVar, Undefined, Named, Failure("Invalid number: HD")}
        \cup {Value(t) : t \in {"HD", "1", "1.0", ""}}
        \cup {Number(n) : n \in {1998, 1999, 2000, 2001, 2002, 3000, 4001, 4002}}

\* MapperContext::has_var and get_var
has_var(var) == var # NoVar
get_var(var) == IF var = NoVar THEN Undefined ELSE var

\* str::parse::<f64>: <<number>> for Ok, <<>> for Err
parse_f64(text) ==
    CASE text \in {"1", "1.0"} -> <<2000>>
      [] text = "2" -> <<4000>>
      [] OTHER -> <<>>

\* compare_number that knows no epsilon
compare_number_Exact(a, b) ==
    IF a = b THEN "Equal" ELSE IF a < b THEN "Less" ELSE "Greater"

\* compare_number(a, b)
compare_number(a, b) ==
    IF (IF a >= b THEN a - b ELSE b - a) < epsilon THEN "Equal"
    ELSE IF a < b THEN "Less" ELSE "Greater"

\* match_number(num, s)
match_number(num, str) ==
    parse_f64(str) # <<>> /\ compare_number(num, parse_f64(str)[1]) = "Equal"

\* cmp_number(num, s): <<ordering>> for Some, <<>> for None
cmp_number(num, str) ==
    IF parse_f64(str) # <<>> THEN <<compare_number(num, parse_f64(str)[1])>>
    ELSE <<>>

\* Ordering::reverse, as the match in compare spells it
reversed(ord) ==
    CASE ord = "Less" -> "Greater"
      [] ord = "Greater" -> "Less"
      [] OTHER -> "Equal"

\* EvalResult::matches(self, other)
matches(self, other) ==
    CASE self.kind = "AnyValue" \/ other.kind = "AnyValue" -> TRUE
      [] self.kind = "Value" /\ other.kind = "Value" -> self.text = other.text
      [] self.kind = "Number" /\ other.kind = "Value" ->
            match_number(self.num, other.text)
      [] self.kind = "Value" /\ other.kind = "Number" ->
            match_number(other.num, self.text)
      [] self.kind = "Number" /\ other.kind = "Number" ->
            compare_number(self.num, other.num) = "Equal"
      [] self.kind = "Named" /\ other.kind = "Named" -> self.text = other.text
      [] OTHER -> FALSE

\* the texts of the values, in the order of str::cmp
TextOrder == <<"", "1", "1.0", "HD">>
TextRank(text) == CHOOSE i \in 1..Len(TextOrder) : TextOrder[i] = text

\* EvalResult::compare(self, other): <<ordering>> for Some, <<>> for None
compare(self, other) ==
    CASE self.kind = "AnyValue" \/ other.kind = "AnyValue" -> <<"Equal">>
      [] self.kind = "Value" /\ other.kind = "Value" ->
            <<compare_number_Exact(TextRank(self.text), TextRank(other.text))>>
      [] self.kind = "Number" /\ other.kind = "Value" ->
            cmp_number(self.num, other.text)
      [] self.kind = "Value" /\ other.kind = "Number" ->
            IF cmp_number(other.num, self.text) = <<>> THEN <<>>
            ELSE <<reversed(cmp_number(other.num, self.text)[1])>>
      [] self.kind = "Number" /\ other.kind = "Number" ->
            <<compare_number(self.num, other.num)>>
      [] self.kind = "Named" /\ other.kind = "Named" ->
            IF self.text = other.text THEN <<"Equal">> ELSE <<>>
      [] OTHER -> <<>>

\* MapCaseKey
MapCaseKey(kind, text, from, to) ==
    [kind |-> kind, text |-> text, from |-> from, to |-> to]
MapCaseKeyLists ==
    { <<MapCaseKey("Text", "HD", 0, 0)>>,
      <<MapCaseKey("Text", "1", 0, 0)>>,
      <<MapCaseKey("Text", "1.0", 0, 0), MapCaseKey("Text", "", 0, 0)>>,
      <<MapCaseKey("RangeFrom", "", 2000, 0)>>,
      <<MapCaseKey("RangeTo", "", 0, 2000)>>,
      <<MapCaseKey("RangeFull", "", 2000, 4000)>>,
      <<MapCaseKey("RangeEq", "", 2000, 0)>>,
      <<MapCaseKey("AnyMatch", "", 0, 0)>> }

\* the keys of all the cases of a block, in a row
RECURSIVE AllKeys(_)
AllKeys(cases) ==
    IF cases = <<>> THEN <<>> ELSE Head(cases) \o AllKeys(Tail(cases))

\* MapperScript::validate_expr, MapBlock: no text twice, one '_' at most
ValidMapCases(cases) ==
    LET keys == AllKeys(cases)
    IN  \A i \in 1..Len(keys), j \in 1..Len(keys) :
            (i # j /\ keys[i].kind = keys[j].kind
                /\ keys[i].kind \in {"Text", "AnyMatch"})
               => keys[i].text # keys[j].text
MapCases == {cases \in SeqsUpTo(MapCaseKeyLists, MaxCases) : ValidMapCases(cases)}

\* the expression of the case at a position: a string literal of its own
CaseExpression(i) == Value(<<"e1", "e2", "e3", "e4">>[i])

\* Expression::eval, MapBlock: one key against the value of the variable
map_key_matches(key, key_value) ==
    CASE key.kind = "Text" -> matches(key_value, Value(key.text))
      [] key.kind = "AnyMatch" -> TRUE
      [] key.kind = "RangeFrom" ->
            /\ compare(key_value, Number(key.from)) # <<>>
            /\ compare(key_value, Number(key.from))[1] \in {"Equal", "Greater"}
      [] key.kind = "RangeTo" ->
            /\ compare(key_value, Number(key.to)) # <<>>
            /\ compare(key_value, Number(key.to))[1] \in {"Equal", "Less"}
      [] key.kind = "RangeFull" ->
            /\ compare(key_value, Number(key.from)) # <<>>
            /\ compare(key_value, Number(key.from))[1] \in {"Equal", "Greater"}
            /\ compare(key_value, Number(key.to)) # <<>>
            /\ compare(key_value, Number(key.to))[1] \in {"Equal", "Less"}
      [] OTHER ->
            /\ compare(key_value, Number(key.from)) # <<>>
            /\ compare(key_value, Number(key.from))[1] = "Equal"

\* Expression::eval, MapBlock: the cases from position i on; the result and
\* the cases whose expression was evaluated
RECURSIVE eval_map_cases(_, _, _)
eval_map_cases(key_value, cases, i) ==
    IF i > Len(cases) THEN [result |-> Undefined, evaluated |-> {}]
    ELSE IF \E k \in 1..Len(cases[i]) : map_key_matches(cases[i][k], key_value)
    THEN [result |-> CaseExpression(i), evaluated |-> {i}]
    ELSE eval_map_cases(key_value, cases, i + 1)

\* Expression::eval, MapBlock
eval_map_block(key, cases) ==
    IF ~has_var(key)
    THEN [result |-> Failure("Map expression invalid!"), evaluated |-> {}]
    ELSE eval_map_cases(get_var(key), cases, 1)

\* a map block is evaluated
EvalMapBlock ==
    /\ call.fn = "eval_map_block"
    /\ ret = <<>>
    /\ ret' = Returned(eval_map_block(call.key, call.cases))
    /\ UNCHANGED call
    /\ UNCHANGED <<managerVars, epgVars, streamVars, urlVars, filterVars, sourceVars>>

\* the variables a match block may name
MapperVars == {"coast", "quality"}

\* what the variables of a context may be when a match block is evaluated
MatchVarStates ==
    {NoVar, Undefined, Named, Value("HD"), Number(2000),
     Failure("Invalid number: HD")}
MapperContexts == [MapperVars -> MatchVarStates]

\* MatchCaseKey: Identifier(name) or AnyMatch ('_'); a list of several keys
\* holds identifiers only (parse_match_case)
MatchCaseKeyLists ==
    {<<"coast">>, <<"quality">>, <<"coast", "quality">>, <<"_">>}

\* MapperScript::validate_expr, MatchBlock: no list of keys twice
ValidMatchCases(cases) ==
    \A i \in 1..Len(cases), j \in 1..Len(cases) : i # j => cases[i] # cases[j]
MatchCases ==
    {cases \in SeqsUpTo(MatchCaseKeyLists, MaxCases) : ValidMatchCases(cases)}

\* Expression::eval, MatchBlock: the value pushed for a key
match_key_value(ctx, key) ==
    IF key = "_" THEN AnyValue ELSE get_var(ctx[key])

\* counts_as_match that counts an Undefined key too
counts_as_match_Undefined(value) ==
    value.kind \in {"Value", "Number", "Named", "AnyValue", "Undefined"}

\* Expression::eval, MatchBlock: the keys that count for match_count
counts_as_match(value) ==
    value.kind \in {"Value", "Number", "Named", "AnyValue"}

\* Expression::eval, MatchBlock: the cases from position i on
RECURSIVE eval_match_cases(_, _, _)
eval_match_cases(ctx, cases, i) ==
    IF i > Len(cases) THEN [result |-> Undefined, evaluated |-> {}]
    ELSE IF \E k \in 1..Len(cases[i]) :
                cases[i][k] # "_" /\ ~has_var(ctx[cases[i][k]])
    THEN [result |-> Failure("Match case invalid!"), evaluated |-> {}]
    ELSE IF \A k \in 1..Len(cases[i]) :
                counts_as_match(match_key_value(ctx, cases[i][k]))
    THEN [result |-> CaseExpression(i), evaluated |-> {i}]
    ELSE eval_match_cases(ctx, cases, i + 1)

\* Expression::eval, MatchBlock
eval_match_block(ctx, cases) == eval_match_cases(ctx, cases, 1)

\* a match block is evaluated
EvalMatchBlock ==
    /\ call.fn = "eval_match_block"
    /\ ret = <<>>
    /\ ret' = Returned(eval_match_block(call.ctx, call.cases))
    /\ UNCHANGED call
    /\ UNCHANGED <<managerVars, epgVars, streamVars, urlVars, filterVars, sourceVars>>

\* the calls and their arguments
Calls ==
    {[fn |-> "load_and_set_file", file |-> f] : f \in ResponseFiles}
        \cup {[fn |-> "resource_response", request |-> r] : r \in ResourceRequests}
        \cup {[fn |-> "get_user_target", api_req |-> r] : r \in UserApiRequests}
        \cup [fn : {"separate_number_and_remainder"}, input : NumberInputs]
        \cup DetailsCalls
        \cup [fn : {"eval_map_block"}, key : VarStates, cases : MapCases]
        \cup [fn : {"eval_match_block"}, ctx : MapperContexts, cases : MatchCases]
        \cup [fn : {"prepare_body_stream"}, throttle_kbps : 0..MaxKbps,
               item_type : PlaylistItemTypes]
        \cup [fn : {"normalize_channel_name"}, name : ChannelNames,
               normalize_config : EpgNamePrefix]

InitCalls ==
    /\ call \in Calls
    /\ ret = <<>>
    /\ ManagerIdle
    /\ EpgIdle
    /\ StreamIdle
    /\ UrlIdle
    /\ FilterIdle
    /\ SourceIdle

NextCalls ==
    \/ LoadAndSetFile
    \/ ResourceResponse
    \/ GetUserTarget
    \/ NormalizeChannelName
    \/ SeparateNumberAndRemainder
    \/ PrepareBodyStream
    \/ MakeStreamDetails
    \/ EvalMapBlock
    \/ EvalMatchBlock

\* one function is called once
SpecCalls == InitCalls /\ [][NextCalls]_vars

----------------------------------------------------------------------------
(* Claims about the ActiveUserManager *)

\* C1: for a user with max connections m > 0, under any interleaving of
\* stream requests that each ask connection_permission and then, unless the
\* answer is Exhausted, call add_connection, the user's connection count never
\* exceeds m + 1 (the +1 being the grace slot).
C1_ConnectionsWithinGraceSlot ==
    \A u \in Users :
        user[u] # NoUser => user[u].connections <= UserMax(u) + 1

\* C2: the count of a user equals the number of live guards plus the number of
\* dropped guards whose release task has not run; it is never negative, and it
\* is 0 when every guard is dropped and every release task has run.
C2_CountMatchesGuards ==
    \A u \in Users :
        IF user[u] = NoUser
        THEN live[u] + pending[u] = 0
        ELSE /\ user[u].connections = live[u] + pending[u]
             /\ user[u].connections >= 0
             /\ (live[u] = 0 /\ pending[u] = 0) => user[u].connections = 0

\* C2 witness: a live guard and a dropped guard whose release has not run,
\* both counted
C2_Witness ==
    /\ user["u1"] # NoUser
    /\ live["u1"] = 1
    /\ pending["u1"] = 1
    /\ user["u1"].connections = 2

\* C5: grace is granted at most once per cooldown: once GracePeriod was
\* answered for a user (granted_grace is set, grace_ts is the time of the
\* grant), a further connection_permission while the user is still at or over
\* the budget and within grace_period_timeout_secs of the grant answers
\* Exhausted.
C5_GraceOncePerCooldown ==
    \A u \in Users :
        ( /\ user[u] # NoUser
          /\ user[u].granted_grace
          /\ user[u].connections >= user[u].max_connections
          /\ now - user[u].grace_ts <= grace_period_timeout_secs )
        => connection_permission(u, UserMax(u)).permission = "Exhausted"

\* C6: user with max = 1 and grace enabled: the first request is Allowed; a
\* second request made while the first connection is held gets GracePeriod; a
\* third request, made within the grace timeout of that grant (and after the
\* second request took its connection), gets Exhausted.
C6_QuotaExhaustScenario ==
    [][ \A r \in Requests :
          ( /\ grace_period_millis > 0
            /\ req[r].pc = "idle"
            /\ req'[r].pc # "idle"
            /\ req'[r].username = "u1"
            /\ \A q \in 1..(r - 1) : req[q].username = "u1" )
          => /\ r = 1 => req'[r].permission = "Allowed"
             /\ (r = 2 /\ req[1].pc = "streaming")
                    => req'[r].permission = "GracePeriod"
             /\ ( /\ r = 3
                  /\ req[1].permission = "Allowed"
                  /\ req[2].permission = "GracePeriod"
                  /\ req[2].pc # "permitted"
                  /\ now - req[2].at <= grace_period_timeout_secs )
                    => req'[r].permission = "Exhausted" ]_vars

\* C13: connection_permission(username, 0) returns Allowed and leaves every
\* field of every user record (count, stored max, granted_grace, grace_ts,
\* sessions) unchanged.
C13_UnlimitedPermissionIsPure ==
    \A u \in Users :
        /\ connection_permission(u, 0).permission = "Allowed"
        /\ connection_permission(u, 0).user = user

\* C13 witness: the user is over the budget with the grace used, so that the
\* call with the user's own max would answer Exhausted
C13_Witness ==
    /\ user["u1"] # NoUser
    /\ user["u1"].granted_grace
    /\ user["u1"].connections > user["u1"].max_connections
    /\ connection_permission("u1", UserMax("u1")).permission = "Exhausted"

\* C14: get_user_session(username, token) returns the user's session with that
\* token, or None when the user or the token is unknown; when the stored
\* permission is GracePeriod and the user is limited, the stored permission is
\* replaced by the decision for the user's current connection count (Allowed
\* below the max, GracePeriod at the max with grace enabled, else Exhausted)
\* and the snapshot returned carries the new value; a session stored as Allowed
\* or Exhausted is returned unchanged and nothing is written.
C14_GetUserSession ==
    \A u \in Users, token \in Tokens :
        LET res == update_user_session(u, token)
        IN  IF \/ user[u] = NoUser
               \/ \A i \in 1..Len(user[u].sessions) : user[u].sessions[i].token # token
            THEN res.session = NoSession /\ res.user = user
            ELSE LET cd  == user[u]
                     i   == CHOOSE k \in 1..Len(cd.sessions) :
                               /\ cd.sessions[k].token = token
                               /\ \A j \in 1..(k - 1) : cd.sessions[j].token # token
                     old == cd.sessions[i]
                     decision ==
                         IF cd.connections < cd.max_connections THEN "Allowed"
                         ELSE IF cd.connections = cd.max_connections
                                 /\ grace_period_millis > 0 THEN "GracePeriod"
                         ELSE "Exhausted"
                 IN  IF old.permission = "GracePeriod" /\ cd.max_connections > 0
                     THEN /\ res.session = [old EXCEPT !.permission = decision]
                          /\ res.user[u].sessions =
                                [cd.sessions EXCEPT ![i] = res.session]
                          /\ res.user[u].connections = cd.connections
                          /\ res.user[u].max_connections = cd.max_connections
                          /\ \A v \in Users \ {u} : res.user[v] = user[v]
                     ELSE res.session = old /\ res.user = user

\* C14 witness: one session was rewritten from GracePeriod to Allowed by a
\* look-up, and a look-up of another, stored as GracePeriod, will rewrite it
\* to Exhausted
C14_Witness ==
    /\ user["u1"] # NoUser
    /\ user["u1"].connections > user["u1"].max_connections
    /\ user["u1"].max_connections > 0
    /\ \E i, j \in 1..Len(user["u1"].sessions) :
          /\ user["u1"].sessions[i].permission = "GracePeriod"
          /\ user["u1"].sessions[j].orig = "GracePeriod"
          /\ user["u1"].sessions[j].permission = "Allowed"

\* C7: a stored session's permission only ever moves from GracePeriod to
\* Allowed or Exhausted: in every step, every session that is stored before and
\* after it keeps its permission unless that permission was GracePeriod.
C7_SessionPermissionMonotone ==
    [][ \A u \in Users :
          (user[u] # NoUser /\ user'[u] # NoUser) =>
             \A i \in 1..Len(user[u].sessions), j \in 1..Len(user'[u].sessions) :
                user[u].sessions[i].sid = user'[u].sessions[j].sid =>
                   \/ user'[u].sessions[j].permission = user[u].sessions[i].permission
                   \/ user[u].sessions[i].permission = "GracePeriod" ]_vars

\* C7 witness: a session created as GracePeriod that a re-evaluation turned
\* into Exhausted, beside a session that is stored as Allowed
C7_Witness ==
    /\ user["u1"] # NoUser
    /\ \E i, j \in 1..Len(user["u1"].sessions) :
          /\ user["u1"].sessions[i].orig = "GracePeriod"
          /\ user["u1"].sessions[i].permission = "Exhausted"
          /\ user["u1"].sessions[j].orig = "Allowed"
          /\ user["u1"].sessions[j].permission = "Allowed"

----------------------------------------------------------------------------
(* Claims about flatten_tvguide *)

\* C8: in the output of flatten_tvguide, under any interleaving of the
\* per-guide processing, every channel tag and every programme of a channel id
\* comes from a guide of the lowest priority number among the guides that
\* hold a channel tag of that id; nothing of that id comes from another guide.
C8_LowestPriorityGuideWins ==
    AllDone =>
        \A i \in 1..Len(epg_children) :
            LET t == epg_children[i]
            IN  /\ \E g \in Guides : HasChannel(g, t.id)
                /\ \A g \in Guides :
                      HasChannel(g, t.id) => t.priority <= sorted_guides[g].priority

\* C9: the output of flatten_tvguide never holds two channel tags of the same
\* id, whatever the guides (equal priorities included) and the interleaving.
C9_ChannelIdsUnique ==
    AllDone =>
        \A i, j \in 1..Len(epg_children) :
            ( /\ i < j
              /\ epg_children[i].name = EPG_TAG_CHANNEL
              /\ epg_children[j].name = EPG_TAG_CHANNEL )
            => epg_children[i].id # epg_children[j].id

\* C10: every programme tag in the output of flatten_tvguide has the id of a
\* channel tag that is in the output too.
C10_ProgrammeChannelIncluded ==
    AllDone =>
        \A i \in 1..Len(epg_children) :
            epg_children[i].name = EPG_TAG_PROGRAMME =>
                \E j \in 1..Len(epg_children) :
                    /\ epg_children[j].name = EPG_TAG_CHANNEL
                    /\ epg_children[j].id = epg_children[i].id

\* C10 witness: the merge is complete and a programme was taken whose own
\* guide has no channel tag of its id: the channel tag in the output comes from
\* another guide
C10_Witness ==
    /\ AllDone
    /\ \E i \in 1..Len(epg_children), g \in Guides :
          /\ epg_children[i].name = EPG_TAG_PROGRAMME
          /\ sorted_guides[g].src = epg_children[i].src
          /\ ~HasChannel(g, epg_children[i].id)

----------------------------------------------------------------------------
(* Claims about stream_response and force_provider_stream_response *)

\* C3: on every path of stream_response and force_provider_stream_response the
\* provider connection guard is released exactly once and never leaked: no
\* guard is released twice; the provider counts exactly the guards that are
\* held; while the body of a response that is not shared streams, its guard is
\* owned by the client stream; a response without a body is returned with its
\* guard dropped; and when a response has ended its guard is dropped, unless it
\* is the source of the shared stream that still has subscribers.
C3_ProviderGuardReleasedOnce ==
    /\ provider.connections = Cardinality(HeldGuards)
    /\ \A s \in Streams :
          LET r == sreq[s]
          IN  /\ r.released <= 1
              /\ (r.released = 1) <=> (r.guard = "dropped")
              /\ (r.pc = "streaming" /\ r.stream # "shared" /\ ~r.share)
                    => r.guard = "client"
              /\ (r.pc = "done" /\ r.response # "body")
                    => r.guard \in {"none", "dropped"}
              /\ r.pc = "done"
                    => \/ r.guard \in {"none", "dropped"}
                       \/ r.guard = "shared" /\ shared.publisher = s
                                             /\ shared.subscribers # {}

\* C3 witness: one response ended after streaming with its guard released, the
\* other was returned without a stream after its guard was dropped
C3_Witness ==
    \E s, t \in Streams :
        /\ sreq[s].pc = "done" /\ sreq[s].response = "body"
        /\ sreq[s].stream = "provider" /\ sreq[s].released = 1
        /\ sreq[t].pc = "done" /\ sreq[t].response = "bad_request"
        /\ sreq[t].allocation \in {"Available", "GracePeriod"}
        /\ sreq[t].released = 1

\* C4: two users request the same Live item with stream sharing enabled: under
\* any interleaving of the two requests at most one provider connection is
\* held, the provider count rises by exactly 1.
C4_SharedStreamOneConnection ==
    ( \A s \in Streams :
         sreq[s].pc # "idle" => (sreq[s].kind = "stream" /\ sreq[s].share) )
    => provider.connections <= 1

\* C11: a stream request whose user permission is Exhausted is answered with
\* the canned user_connections_exhausted response; it acquires no provider
\* connection, joins and publishes no shared stream, adds no user connection
\* and creates no user session.
C11_ExhaustedUserTouchesNothing ==
    \A s \in Streams :
        (sreq[s].pc # "idle" /\ sreq[s].kind = "stream"
            /\ sreq[s].permission = "Exhausted")
        => /\ sreq[s].pc = "done"
           /\ sreq[s].response = "user_connections_exhausted"
           /\ sreq[s].allocation = "None"
           /\ sreq[s].guard = "none"
           /\ sreq[s].released = 0
           /\ s \notin shared.subscribers
           /\ shared.publisher # s
           /\ ~sreq[s].user_added
           /\ ~sreq[s].session

\* C11 witness: an exhausted user was answered while another response holds
\* the provider's connection and has its session
C11_Witness ==
    \E s, t \in Streams :
        /\ sreq[s].permission = "Exhausted"
        /\ sreq[s].response = "user_connections_exhausted"
        /\ sreq[t].pc = "streaming"
        /\ sreq[t].session
        /\ provider.connections = 1

\* C12: resolve_streaming_strategy yields the Custom state exactly when the
\* allocator returned Exhausted, the Available state exactly when it returned
\* Available and the GracePeriod state exactly when it returned GracePeriod;
\* in all three cases the returned strategy carries the allocation guard.
C12_StrategyStateFollowsAllocation ==
    \A s \in Streams :
        /\ (sreq[s].state = "Custom") <=> (sreq[s].allocation = "Exhausted")
        /\ (sreq[s].state = "Available") <=> (sreq[s].allocation = "Available")
        /\ (sreq[s].state = "GracePeriod") <=> (sreq[s].allocation = "GracePeriod")
        /\ sreq[s].pc = "open"
              => (sreq[s].allocation \in Allocations /\ sreq[s].guard = "strategy")

\* C12 witness: a GracePeriod strategy has just been returned with its guard
\* while the other response holds an Available one
C12_Witness ==
    \E s, t \in Streams :
        /\ sreq[s].state = "Available"
        /\ sreq[t].pc = "open"
        /\ sreq[t].state = "GracePeriod"
        /\ sreq[t].guard = "strategy"


----------------------------------------------------------------------------
(* Claims about the url rewrite *)

\* C15: a rewrite from provider A to provider B replaces one occurrence of A's
\* base url, one of A's username and one of A's password by B's, and when only
\* one of the two providers has credentials the url comes back unchanged.
C15_RewriteReplacesOnceEach ==
    rw.fn \in {"stream", "redirect"} =>
        /\ ( /\ has_user_info(rw.from) /\ has_user_info(rw.to)
             /\ starts_with(rw.url, rw.from.base_url) )
              => rw.out = get_stream_alternative_url_Once(rw.url, rw.from, rw.to)
        /\ (has_user_info(rw.from) # has_user_info(rw.to)) => rw.out = rw.url

\* C16: a rewrite between a provider and itself gives the url back, and for a
\* url that starts with A's base url and holds A's base url, username and
\* password once each, the rewrite from A to B followed by the rewrite from B
\* to A gives the url back (both providers having credentials).
C16_RewriteRoundTrip ==
    /\ (rw.fn \in {"stream", "redirect"} /\ rw.from = rw.to) => rw.out = rw.url
    /\ ( /\ rw.back # NoUrl
         /\ has_user_info(rw.from) /\ has_user_info(rw.to)
         /\ starts_with(rw.url, rw.from.base_url)
         /\ Occurrences(rw.url, rw.from.base_url) = 1
         /\ Occurrences(rw.url, rw.from.username) = 1
         /\ Occurrences(rw.url, rw.from.password) = 1 )
          => rw.back = rw.url

\* C17: the strategy carries the stream url as it was given, under the input's
\* name, when the provider is pinned or the allocated provider is the requesting
\* input; when another provider is allocated and none is pinned it carries the
\* url rewritten for that provider, under that provider's name.
C17_UrlRewrittenOnlyForAlias ==
    rw.fn = "strategy" =>
        IF rw.force_provider \/ rw.provider_id = "input"
        THEN /\ rw.out = rw.url
             /\ rw.provider_name = "input"
        ELSE /\ rw.out = get_stream_alternative_url(rw.url, rw.from, rw.to)
             /\ rw.provider_name = "alias"

\* a pinned request got the alias and kept a url that the rewrite for the alias
\* would have changed
C17_Witness ==
    /\ rw.fn = "strategy"
    /\ rw.force_provider /\ rw.provider_id = "alias"
    /\ rw.out = <<"a", "u", "p", "x">>
    /\ get_stream_alternative_url(rw.url, rw.from, rw.to) = <<"b", "v", "q", "x">>

----------------------------------------------------------------------------
(* Claims about the answer of a pinned provider that gives no stream *)

\* C18: when force_provider_stream_response gets no stream and answers the
\* canned channel_unavailable payload, the provider guard is released and the
\* status of the answer is 502 Bad Gateway.
C18_ForcedUnavailableIsBadGateway ==
    \A s \in Streams :
        ( /\ sreq[s].kind = "forced"
          /\ sreq[s].pc = "done"
          /\ sreq[s].response = "channel_unavailable" )
           => /\ sreq[s].guard = "dropped"
              /\ sreq[s].status = "BAD_GATEWAY"

----------------------------------------------------------------------------
(* Claims about process_epg_file *)

\* C19: with fuzzy matching enabled, a channel tag that finds no normalized
\* match but has a candidate in its phonetic bucket with a score of at least
\* match_threshold is matched: the channel is kept, its id is one the
\* programmes are kept for, and a candidate key is bound to the id.
C19_FuzzyCandidateIsMatched ==
    [][ ( /\ fpos <= Len(epg_file)
          /\ fpos' = fpos + 1
          /\ epg_file[fpos].name = EPG_TAG_CHANNEL
          /\ epg_file[fpos].id \notin id_cache.processed
          /\ id_cache.smart_match_config.enabled
          /\ id_cache.smart_match_config.fuzzy_matching
          /\ ~match_with_normalized(id_cache, epg_file[fpos].id,
                                    epg_file[fpos].normalized_epg_ids).matched
          /\ fuzzy_candidates(id_cache, epg_file[fpos]) # {} )
         => /\ file_children' = Append(file_children, epg_file[fpos])
            /\ epg_file[fpos].id \in id_cache'.channel_epg_id
            /\ epg_file[fpos].id \in id_cache'.processed
            /\ \E k \in fuzzy_data(id_cache, epg_file[fpos]) :
                  id_cache'.normalized[k] = epg_file[fpos].id ]_vars

\* C20: when the file is read, the programmes kept are those of the kept
\* channels: every programme of a kept channel, wherever it stands in the file,
\* and no programme of another channel.
C20_ProgrammesOfKeptChannels ==
    fpos > Len(epg_file) =>
        \A c \in ChanIds :
            Programmes(file_children, c) =
                IF c \in KeptChannels THEN Programmes(epg_file, c) ELSE 0

----------------------------------------------------------------------------
(* Claims about TVGuide::filter *)

----------------------------------------------------------------------------
(* Claims about the functions of one call *)

\* C22: a custom-response file is loaded only if it exists, holds at most
\* 10 MiB and starts with 0x47; a file that starts with another byte, an empty
\* file and a file of more than 10 MiB stay unset, and a readable file that
\* passes the three checks is loaded.
C22_CustomResponseFileChecked ==
    (call.fn = "load_and_set_file" /\ ret # <<>>) =>
        LET file == call.file
            valid == /\ file.exists
                     /\ file.len <= 10 * 1024 * 1024
                     /\ file.len > 0
                     /\ file.first = 71
        IN  /\ ret[1] # None => valid
            /\ (valid /\ file.readable) => ret[1] = "Some"

\* a file of exactly 10 MiB that starts with 0x47 was loaded
C22_Witness ==
    /\ call.fn = "load_and_set_file"
    /\ call.file.len = 10 * 1024 * 1024
    /\ call.file.first = 71
    /\ ret = <<"Some">>

----------------------------------------------------------------------------
(* Claims about the lazy GC *)

\* C23: a sweep of the GC removes the user records that are stale (no
\* connection, no session younger than the TTL): after the sweep such a user
\* is either gone from the user map, so that active_users() no longer counts it,
\* or is the user of the call, whose record holds the new session only.
C23_StaleUserRecordRemoved ==
    [][ gc_ts' # gc_ts =>
          \A u \in Users :
              ( /\ user[u] # NoUser
                /\ user[u].connections = 0
                /\ \A i \in 1..Len(user[u].sessions) :
                      now - user[u].sessions[i].ts >= USER_CON_TTL
                /\ user'[u] # NoUser )
               => /\ Len(user'[u].sessions) = 1
                  /\ user'[u].sessions[1].sid = created' ]_vars

\* the sessions of a list that are younger than the TTL, in their order
RECURSIVE YoungSessions(_)
YoungSessions(sessions) ==
    IF sessions = <<>> THEN <<>>
    ELSE IF now - Head(sessions).ts >= 10800
    THEN YoungSessions(Tail(sessions))
    ELSE <<Head(sessions)>> \o YoungSessions(Tail(sessions))

\* C24: create_user_session appends exactly one new session to the record of
\* the named user, which is created with count 0 if absent; when more than
\* 10800 s passed since the last GC, the sessions of every user that are at
\* least 10800 s old are removed first and the GC timestamp becomes now;
\* otherwise no session is removed and the timestamp stays.
C24_CreateSessionSweepsThenAppends ==
    [][ created' = created + 1 =>
          LET due == now - gc_ts > 10800
              kept(u) == IF user[u] = NoUser THEN <<>>
                         ELSE IF due THEN YoungSessions(user[u].sessions)
                         ELSE user[u].sessions
          IN  /\ gc_ts' = IF due THEN now ELSE gc_ts
              /\ \E username \in Users :
                    /\ user'[username] # NoUser
                    /\ Len(user'[username].sessions) = Len(kept(username)) + 1
                    /\ SubSeq(user'[username].sessions, 1, Len(kept(username)))
                         = kept(username)
                    /\ user'[username].sessions[Len(kept(username)) + 1].sid = created'
                    /\ user'[username].sessions[Len(kept(username)) + 1].ts = now
                    /\ user'[username].connections =
                         IF user[username] = NoUser THEN 0
                         ELSE user[username].connections
                    /\ \A u \in Users \ {username} :
                          IF user[u] = NoUser THEN user'[u] = NoUser
                          ELSE user'[u] = [user[u] EXCEPT !.sessions = kept(u)] ]_vars

\* a sweep has removed the session of u1 and the session of u2 was appended
C24_Witness ==
    /\ gc_ts = now /\ gc_ts > 1
    /\ user["u1"] # NoUser /\ user["u2"] # NoUser
    /\ user["u1"].sessions = <<>>
    /\ Len(user["u2"].sessions) = 1
    /\ created = 2

\* C25: when the cache cannot serve a resource it holds (its file is missing
\* or cannot be opened) or cannot create the file of a resource it does not
\* hold, resource_response streams the resource from the upstream.
C25_CacheFailureBypassesCache ==
    (call.fn = "resource_response" /\ ret # <<>>) =>
        LET r == call.request
            cache_failed == /\ r.cache
                            /\ IF r.cached THEN ~r.exists \/ ~r.opens
                               ELSE ~r.create
        IN  (cache_failed /\ r.url = "valid" /\ r.upstream = "success")
                => ret[1] = [status |-> "OK", body |-> "upstream"]

\* a string that holds a character that is not white space
NotBlank(str) == \E i \in 1..Len(str) : str[i] # " "

C27_PrefixJoinedWithConfiguredSeparator ==
    (call.fn = "normalize_channel_name" /\ ret # <<>>) =>
        LET config == call.normalize_config
            split == name_prefix(to_lowercase(deunicode(trim(call.name))), config)
            cleaned == cleaned_name(split.rest)
        IN  CASE split.prefix = None -> ret[1] = cleaned
              [] split.prefix # None /\ config.kind = "Suffix" ->
                    ret[1] = cleaned \o <<config.sep>> \o split.prefix[1]
              [] split.prefix # None /\ config.kind = "Prefix" ->
                    ret[1] = split.prefix[1] \o <<config.sep>> \o cleaned
              [] OTHER -> TRUE

\* the indices of the dots of a string
Dots(str) == {i \in 1..Len(str) : str[i] = "."}

\* C28: an input without a dot is returned whole with no remainder; an input
\* with a dot is split at its last dot, the first part being what is before
\* that dot and the remainder what is from that dot on, given as None when it
\* is shorter than 2 characters; a remainder that is Some, put after the first
\* part, gives the input back.
C28_SplitAtLastDot ==
    (call.fn = "separate_number_and_remainder" /\ ret # <<>>) =>
        LET input == call.input
        IN  IF Dots(input) = {}
            THEN ret[1] = [number_part |-> input, rest |-> <<>>]
            ELSE LET last == CHOOSE i \in Dots(input) : \A j \in Dots(input) : j <= i
                 IN  /\ ret[1].number_part = SubSeq(input, 1, last - 1)
                     /\ ret[1].rest =
                            IF Len(input) - last + 1 < 2 THEN <<>>
                            ELSE <<SubSeq(input, last, Len(input))>>
                     /\ ret[1].rest # <<>> =>
                            ret[1].number_part \o ret[1].rest[1] = input

\* an input with two dots was split at the second
C28_Witness ==
    /\ call.fn = "separate_number_and_remainder"
    /\ call.input = <<"1", ".", ".", "a">>
    /\ ret = <<[number_part |-> <<"1", ".">>, rest |-> <<<<".", "a">>>>]>>

\* C30: the body of a client stream is throttled exactly when the rate is
\* above 0 and the item is a Video, a Series, a SeriesInfo or a Catchup; a
\* Live, LiveHls or LiveDash stream is not throttled at any rate.
C30_ThrottledOnlyNonLive ==
    (call.fn = "prepare_body_stream" /\ ret # <<>>) =>
        /\ (ret[1] = "ThrottledStream") <=>
              (/\ call.throttle_kbps > 0
               /\ \/ call.item_type = "Video"
                  \/ call.item_type = "Series"
                  \/ call.item_type = "SeriesInfo"
                  \/ call.item_type = "Catchup")
        /\ call.item_type \in {"Live", "LiveHls", "LiveDash"} =>
              ret[1] = "ActiveClientStream"

\* a series info was throttled at a rate above 0
C30_Witness ==
    /\ call.fn = "prepare_body_stream"
    /\ call.item_type = "SeriesInfo"
    /\ call.throttle_kbps > 0
    /\ ret = <<"ThrottledStream">>

\* C29: a user whose granted_grace flag is set has a connection count at or
\* above the stored max_connections, whatever max_connections the calls pass.
\* (Violated: add_connection stores a higher max_connections and leaves the
\* flag as it is.)
C29_GraceOnlyAtOrAboveMax ==
    \A username \in Users :
        (user[username] # NoUser /\ user[username].granted_grace) =>
            user[username].connections >= user[username].max_connections

\* the responses that look for, join or publish the shared stream of the url
OnSharedPath(s) ==
    \/ sreq[s].share
    \/ sreq[s].pc \in {"share_check", "subscribe", "attach"}
    \/ sreq[s].stream = "shared"
    \/ sreq[s].guard = "shared"
    \/ shared.publisher = s
    \/ s \in shared.subscribers

\* C31: is_stream_share_enabled is true exactly for a Live item on a target
\* with share_live_streams, and a response on the way to the shared stream, a
\* subscriber of it or its publisher is a response for a Live item; a Video,
\* Series, SeriesInfo, Catchup, LiveHls or LiveDash never is.
C31_SharedOnlyForLive ==
    /\ \A item_type \in PlaylistItemTypes, share_live_streams \in BOOLEAN :
          is_stream_share_enabled(item_type, share_live_streams)
              <=> (item_type = "Live" /\ share_live_streams)
    /\ \A s \in Streams : OnSharedPath(s) => sreq[s].item_type = "Live"

\* a Live response publishes the shared stream and is its subscriber while a
\* LiveHls response streams from the provider on its own
C31_Witness ==
    \E s \in Streams, t \in Streams :
        /\ shared.publisher = s
        /\ s \in shared.subscribers
        /\ sreq[s].item_type = "Live"
        /\ sreq[t].item_type = "LiveHls"
        /\ sreq[t].pc = "streaming"
        /\ sreq[t].stream = "provider"
        /\ t \notin shared.subscribers

\* C32: a call of connection_permission(username, max) for a known user with
\* max > 0 returns Allowed exactly when the user's connection count is below
\* the max of that call.
\* (Violated: the count is compared with the max_connections the record
\* stores, which is the one of the last add_connection or of the
\* create_user_session that made the record.)
C32_AllowedBelowPassedMax ==
    [][\A username \in ManagerUsers :
          \A max_connections \in ChangedMaxes(username) :
             (/\ user[username] # NoUser
              /\ max_connections > 0
              /\ ConnectionPermission(username, max_connections))
                 => (connection_permission(username, max_connections).permission
                        = "Allowed"
                     <=> user[username].connections < max_connections)]_vars

\* C33: get_user_session leaves every user's connection count, stored
\* max_connections, granted_grace and grace_ts as they are, and every session
\* but the one it looks up.
\* (Violated: for a session held with GracePeriod the permission is evaluated
\* again by check_connection_permission, which sets or clears granted_grace
\* and grace_ts of the record.)
C33_GetUserSessionFrame ==
    [][\A username \in ManagerUsers, token \in Tokens :
          GetUserSession(username, token) =>
             \A u \in Users :
                user[u] # NoUser =>
                   /\ user'[u] # NoUser
                   /\ user'[u].connections = user[u].connections
                   /\ user'[u].max_connections = user[u].max_connections
                   /\ user'[u].granted_grace = user[u].granted_grace
                   /\ user'[u].grace_ts = user[u].grace_ts
                   /\ Len(user'[u].sessions) = Len(user[u].sessions)
                   /\ \A i \in 1..Len(user[u].sessions) :
                         (u # username
                             \/ i # find_user_session(token, user[u].sessions))
                            => user'[u].sessions[i] = user[u].sessions[i]]_vars

----------------------------------------------------------------------------
(* Claims about the channel ids of TVGuide::filter *)

\* the sources as get_epg_sources gives them: in the order of their priority
IsSortedByPriority(sources) ==
    \A i \in 1..Len(sources), j \in 1..Len(sources) :
        i < j => sources[i].priority <= sources[j].priority

\* the channel tags of an Epg, by position
ChannelPositions(e) ==
    {k \in 1..Len(e.children) : e.children[k].name = EPG_TAG_CHANNEL}

\* a source that can be read and holds a channel tag with this id that matches
\* the channels asked for
OffersChannel(source, chan_id) ==
    /\ source.readable
    /\ \E k \in 1..Len(source.tags) :
          /\ source.tags[k].name = EPG_TAG_CHANNEL
          /\ source.tags[k].id = chan_id
          /\ IF filter_args.id_cache.smart_match_config.enabled
             THEN try_fuzzy_matching(filter_args.id_cache, chan_id, source.tags[k],
                                     FALSE, NoFuzzyMatch).matched
             ELSE chan_id \in filter_args.id_cache.channel_epg_id

----------------------------------------------------------------------------
(* Claims about users without a record *)

\* the limits a caller may pass, 0 (no limit) included
AnyMaxes == {0} \cup UNION {ChangedMaxes(u) : u \in Users}

\* C35: for a user with no record connection_permission gives Allowed whatever
\* max_connections is, and the user map it leaves is the one it found: no
\* record is made and none is changed; a request permitted while its user has
\* no record was given Allowed.
C35_UnknownUserAllowed ==
    /\ \A username \in Users, max_connections \in AnyMaxes :
          user[username] = NoUser =>
              connection_permission(username, max_connections)
                  = [permission |-> "Allowed", user |-> user]
    /\ \A r \in Requests :
          (req[r].pc = "permitted" /\ user[req[r].username] = NoUser)
              => req[r].permission = "Allowed"

\* a request of a user with no record was permitted while another user has a
\* record with a connection
C35_Witness ==
    \E r \in Requests, u \in Users :
        /\ req[r].pc = "permitted"
        /\ req[r].permission = "Allowed"
        /\ user[req[r].username] = NoUser
        /\ user[u] # NoUser
        /\ user[u].connections > 0

\* C36: the StreamDetails of a client stream have a grace period only if a
\* grace period is configured and the provider state or the permission of the
\* user is GracePeriod; with an Available provider and an Allowed user, a
\* stream that joins a shared stream included, they have none.
\* (Violated: the details of a stream that joins a shared stream are made by
\* from_stream, which gives them default_grace_period_millis.)
C36_GraceBudgetOnlyInGrace ==
    (call.fn = "stream_details" /\ ret # <<>>) =>
        (has_grace_period(ret[1]) =>
            /\ call.config_grace_period_millis > 0
            /\ \/ call.provider_stream_state = "GracePeriod"
               \/ call.connection_permission = "GracePeriod")

----------------------------------------------------------------------------
(* Claims about the owner of a session *)

\* the sessions of a user, by the identity create_user_session gave them
SessionIds(username) ==
    IF user[username] = NoUser THEN {}
    ELSE {user[username].sessions[i].sid : i \in 1..Len(user[username].sessions)}

\* C37: the session get_user_session(username, token) returns has that token
\* and is one create_user_session made for that username, not one of another
\* user with the same token; of several sessions of the user with the token
\* it is the one created first.
C37_SessionOfItsUser ==
    \A username \in Users, token \in Tokens :
        LET session == update_user_session(username, token).session
        IN  IF session = NoSession
            THEN \A i \in 1..Len(IF user[username] = NoUser THEN <<>>
                                 ELSE user[username].sessions) :
                    user[username].sessions[i].token # token
            ELSE /\ session.token = token
                 /\ session.sid \in SessionIds(username)
                 /\ \A other \in Users \ {username} :
                       session.sid \notin SessionIds(other)
                 /\ \A i \in 1..Len(user[username].sessions) :
                       user[username].sessions[i].token = token
                           => session.sid <= user[username].sessions[i].sid

\* two users hold a session with the same token, both created with
\* GracePeriod: the one of u1 was looked up and is Allowed now, the one of u2
\* is as it was created
C37_Witness ==
    \E token \in Tokens :
        /\ user["u1"] # NoUser
        /\ user["u2"] # NoUser
        /\ Len(user["u1"].sessions) = 1
        /\ Len(user["u2"].sessions) = 1
        /\ user["u1"].sessions[1].token = token
        /\ user["u2"].sessions[1].token = token
        /\ user["u1"].sessions[1].orig = "GracePeriod"
        /\ user["u1"].sessions[1].permission = "Allowed"
        /\ user["u2"].sessions[1].orig = "GracePeriod"
        /\ user["u2"].sessions[1].permission = "GracePeriod"

----------------------------------------------------------------------------
(* Claims about the map block of the mapper script                            *)

\* the number a value stands for in a comparison with a number: its own, or
\* the one its text parses to; <<>> when there is none
NumberOf(value) ==
    CASE value.kind = "Number" -> <<value.num>>
      [] value.kind = "Value" -> parse_f64(value.text)
      [] OTHER -> <<>>

\* a key matches a value: a text by equality, a range by its bounds, widened
\* by slack on either side, '_' always
KeyMatches(key, value, slack) ==
    LET n == NumberOf(value)
    IN  CASE key.kind = "AnyMatch" -> TRUE
          [] key.kind = "Text" ->
                \/ value.kind = "Value" /\ value.text = key.text
                \/ /\ value.kind = "Number"
                   /\ parse_f64(key.text) # <<>>
                   /\ parse_f64(key.text)[1] - slack <= value.num
                   /\ value.num <= parse_f64(key.text)[1] + slack
          [] key.kind = "RangeFrom" -> n # <<>> /\ n[1] >= key.from - slack
          [] key.kind = "RangeTo" -> n # <<>> /\ n[1] <= key.to + slack
          [] key.kind = "RangeFull" ->
                n # <<>> /\ n[1] >= key.from - slack /\ n[1] <= key.to + slack
          [] OTHER ->
                n # <<>> /\ n[1] >= key.from - slack /\ n[1] <= key.from + slack

\* the cases with a key that matches the value
MatchingCases(cases, value, slack) ==
    {i \in 1..Len(cases) :
        \E k \in 1..Len(cases[i]) : KeyMatches(cases[i][k], value, slack)}

\* the first matching case is evaluated and is the result, and no other case
\* is evaluated; without a matching case the result is Undefined
FirstMatchingCase(cases, value, slack) ==
    LET hits == MatchingCases(cases, value, slack)
        first == CHOOSE i \in hits : \A j \in hits : i <= j
    IN  IF hits = {} THEN [result |-> Undefined, evaluated |-> {}]
        ELSE [result |-> CaseExpression(first), evaluated |-> {first}]

----------------------------------------------------------------------------
(* Claims about the match block of the mapper script                          *)

\* a key holds a defined value: a text, a number or named captures; '_' always
KeyIsDefined(ctx, key) ==
    key = "_" \/ get_var(ctx[key]).kind \in {"Value", "Number", "Named"}

\* the cases all of whose keys hold a defined value
QualifyingCases(ctx, cases) ==
    {i \in 1..Len(cases) :
        \A k \in 1..Len(cases[i]) : KeyIsDefined(ctx, cases[i][k])}

\* the first of a set of cases
FirstCase(hits) == CHOOSE i \in hits : \A j \in hits : i <= j

\* a case names a variable that the context does not know
NamesUnknown(ctx, keys) ==
    \E k \in 1..Len(keys) : keys[k] # "_" /\ ~has_var(ctx[keys[k]])

\* C39, as stated: a match block returns the value of the first case all of
\* whose key variables hold a defined value; a case with a key that is
\* Undefined or a Failure is skipped, and the block is Undefined when no case
\* qualifies
C39_FirstDefinedCase ==
    (call.fn = "eval_match_block" /\ ret # <<>>)
        => LET hits == QualifyingCases(call.ctx, call.cases)
           IN  ret[1].result =
                  IF hits = {} THEN Undefined ELSE CaseExpression(FirstCase(hits))

\* C39, amended: a match block returns the value of the first case all of
\* whose key variables hold a defined value, and is Undefined when no case
\* qualifies, provided that every case up to that one names only variables
\* that the context knows; a case with a key that is Undefined or a Failure is
\* skipped. When a case that names a variable the context does not know is
\* reached before any case qualifies, the block is a Failure
C39_FirstDefinedCaseOfKnownVars ==
    (call.fn = "eval_match_block" /\ ret # <<>>)
        => LET hits == QualifyingCases(call.ctx, call.cases)
               unknown == {i \in 1..Len(call.cases) :
                              NamesUnknown(call.ctx, call.cases[i])}
               stops == hits \cup unknown
           IN  /\ ret[1].result =
                     IF stops = {} THEN Undefined
                     ELSE IF FirstCase(stops) \in unknown
                     THEN Failure("Match case invalid!")
                     ELSE CaseExpression(FirstCase(stops))
               /\ ret[1].evaluated =
                     IF stops = {} \/ FirstCase(stops) \in unknown THEN {}
                     ELSE {FirstCase(stops)}

\* the first case has an Undefined key and is skipped, the second is returned
C39_Witness ==
    /\ call.fn = "eval_match_block"
    /\ ret # <<>>
    /\ call.ctx["coast"] = Undefined
    /\ call.ctx["quality"] = Value("HD")
    /\ call.cases = <<<<"coast", "quality">>, <<"quality">>>>
    /\ ret[1].result = CaseExpression(2)

====
